---- MODULE Spec2Model ----
(***************************************************************************)
(* The protocol connection engine of amannm/cdp (package internal):        *)
(* CDPConn with its reader goroutine (readLoop), Send, Close, and the      *)
(* consumer of the event queue.  One Send invocation is one member of      *)
(* Calls; every step that takes c.Mu is one atomic action.                 *)
(***************************************************************************)
EXTENDS Integers, Sequences, FiniteSets, TLC

\* ----------------------------------------------------------------- bounds
MaxCalls    == 2      \* Send invocations on the connection
MaxFrames   == 2      \* frames the reader reads in Spec
MaxClose    == 2      \* Close() invocations
MaxTake     == 2      \* events a consumer takes in SpecFlood
MaxEvents   == 3      \* events the peer emits in SpecListen
OutCap      == 1      \* capacity of the output channel Listen is given
MaxNames    == 3      \* instance names that may have a record
MaxOps      == 2      \* registry operations run one after another
FloodEvents == 150    \* events the peer emits in SpecFlood

\* ------------------------------------------------------ program constants
FirstID  == 1         \* CDPConn.NextID after DialCDP
EventCap == 100       \* make(chan *CDPMessage, 100)
SlotCap  == 1         \* make(chan *CDPMessage, 1)
DefaultPort == 9222   \* port = 9222
ProbeCap == 100       \* for i := 0; i < 100; i++

Calls == 1..MaxCalls

\* ------------------------------------------------------------ the codec
\* json.RawMessage values: the nil slice, valid JSON texts (one of them with
\* insignificant white space) and a text that is no JSON.
NilRaw   == "<nil>"
RawTexts == {"null", "[1]", "[ 1 ]", "["}
\* The params the Sends of the specifications pass: a valid text and an
\* invalid one; with an echoing peer, the nil slice and every text.
SendParams   == {"[1]", "["}
EchoParams   == {NilRaw} \cup RawTexts
EchoSessions == {"", "S1"}
\* The targets of the operations that are checked.
OpTargets    == {"", "T1"}
\* What GetWsURL reads from /json/version, how os.WriteFile ends, and how
\* os.ReadDir ends.
WsURLAnswers    == {"url", "empty", "error"}
WriteOutcomes   == {"written", "partial", "failed"}
ReadDirOutcomes == {"ok", "missing", "error"}
\* Marks of the history of a Send that the properties speak of.
ParkedThenLate  == {"ctxWhileParked", "lateReply"}
WroteThenCtx    == {"ctxBeforeReply", "wrote"}
NeverRegistered == {"calledAfterClose", "ctxBeforeReply"}
\* AttachToTarget, line 144: json.Marshal of {"targetId": t, "flatten": true}
\* (map keys are written sorted); it is JSON for every t.
AttachParams(t) == "{\"flatten\":true,\"targetId\":\"" \o t \o "\"}"
\* The targets a caller names: none, the browser-level sentinel, a target id.
Targets == {"", "browser", "T1"}
\* A result payload that carries a session id.
SessionResult == "{\"sessionId\":\"S1\"}"
ValidJSON(p) ==
  p \in {"null", "[1]", "[ 1 ]", SessionResult} \cup {AttachParams(t) : t \in Targets}
\* encoding/json compacts the output of a Marshaler (RawMessage.MarshalJSON).
Compact(p) == IF p = "[ 1 ]" THEN "[1]" ELSE p

NoError  == <<>>                                   \* (*CDPError)(nil)
ErrorObj == <<[Code |-> -32000, Message |-> "failed"]>>

CDPMessage(i, method, params, session, result, error) ==
  [ID |-> i, Method |-> method, Params |-> params, SessionID |-> session,
   Result |-> result, Error |-> error]

\* Faulty variant: the request is marshalled without its params
MarshalNoParams(m) ==
  [ok |-> TRUE, data |-> [wf |-> TRUE, obj |-> [m EXCEPT !.Params = NilRaw]]]
\* json.Marshal(msg): every field is omitempty, so a zero field is absent from
\* the frame; a RawMessage that is no JSON makes Marshal fail.
Marshal(m) ==
  IF \/ (m.Params # NilRaw /\ ~ValidJSON(m.Params))
     \/ (m.Result # NilRaw /\ ~ValidJSON(m.Result))
  THEN [ok |-> FALSE, data |-> [wf |-> FALSE, obj |-> m]]
  ELSE [ok |-> TRUE,
        data |-> [wf |-> TRUE,
                  obj |-> [m EXCEPT !.Params = Compact(@), !.Result = Compact(@)]]]

\* json.Unmarshal(data, &msg) into a fresh CDPMessage: an absent field keeps
\* its zero value, a RawMessage field receives the bytes of the frame as sent.
Unmarshal(f) == [ok |-> f.wf, msg |-> f.obj]

\* ------------------------------------------------------------- the state
VARIABLES
  NextID,     \* CDPConn.NextID
  Pending,    \* CDPConn.Pending: [isNil, slots: id -> the call whose channel it is]
  Events,     \* CDPConn.Events: [isNil, q, closed]
  Closed,     \* CDPConn.Closed
  Mu,         \* CDPConn.Mu: "free", or "reader" when the reader blocks holding it
  Conn,       \* the socket: "open", or "closed" once Close() ran
  ch,         \* the channel each Send makes: [buf, closed]
  pc,         \* where each Send is
  id,         \* the id each Send allocated
  arg,        \* the arguments of each Send: [params, session]
  ctx,        \* each Send's context: "active" or its Err()
  ret,        \* what each Send returned: [resp, err]
  hist,       \* what has happened to each Send (history)
  wire,       \* the requests written to the socket and not yet answered
  reader,     \* readLoop: "running", "blocked" or "exited"
  frame,      \* the frame readLoop read last
  nread,      \* frames read
  evSent,     \* events the peer has emitted
  arrived,    \* the events readLoop decoded, in arrival order
  taken,      \* the events taken from the queue, in order
  nTake,      \* receives from the event queue
  nClose,     \* Close() invocations
  panic,      \* "none", or the runtime panic that ended the program
  opc,        \* where the dispatcher Send or Listen is
  target,     \* its target argument
  sessionID,  \* its sessionID variable
  opRet,      \* what it returned: [resp, err, class] and by which return (via)
  eventCh,    \* Listen's output channel: the events buffered in it
  event,      \* the event Listen took from the queue and still holds
  received,   \* the events the caller received from the output channel
  consumer,   \* the caller's loop on the output channel: "reading" or "stopped"
  registry,   \* InstancesDir: name -> the content of <name>.json
  alive,      \* the process ids of the processes that exist
  rpc,        \* the registry operation under way: "idle", "list", "find", "done"
  rarg,       \* the name the operation was called with
  entries,    \* ListInstances: the directory entries not yet visited
  instances,  \* ListInstances: instances
  cleanupErrs,\* ListInstances: cleanupErrs
  rret,       \* what the operation returned
  rmFailed,   \* the names whose os.Remove failed in this operation (history)
  before,     \* the registry when the operation was entered (history)
  nOps,       \* operations entered
  spc,        \* where StartBrowser or StopInstance is
  opts,       \* StartBrowser: opts
  userDataDir,\* StartBrowser: userDataDir
  tempDir,    \* StartBrowser: tempDir
  port,       \* StartBrowser: port
  probes,     \* StartBrowser: i, the probes made by the port loop
  proc,       \* StartBrowser: the pid of proc.Process (0: none)
  wsURL,      \* StartBrowser: wsURL
  inst,       \* StopInstance: inst
  stopped,    \* StopInstance: stopped
  parent,     \* whether the program is the parent of the recorded processes
  dirs,       \* the directories that exist
  serving,    \* port -> the pid that answers /json/version on it (0: another program)
  signals,    \* the signals StopInstance sent, in order (history)
  stages,     \* how each stage of StopInstance ended, in order (history)
  freeProbed, \* the ports the port loop found not answering (history)
  supplied,   \* the directories that were given by a caller (history)
  rmAllFailed,\* the directories whose os.RemoveAll failed in this operation (history)
  todo,       \* StopAllInstances: the entries not yet visited
  failed,     \* StopAllInstances: failed
  pgrp,       \* pid -> process group of the launched browsers and their children
  termTo,     \* the processes StopInstance's SIGTERM was delivered to (history)
  other       \* the local state of a second, suspended call of StartBrowser

connVars == <<NextID, Pending, Events, Closed, Mu, Conn>>
callVars == <<ch, pc, id, arg, ctx, ret, hist>>
peerVars == <<wire, frame, nread, evSent, arrived>>
opVars   == <<opc, target, sessionID, opRet, eventCh, event, received, consumer>>
vars == <<NextID, Pending, Events, Closed, Mu, Conn, ch, pc, id, arg, ctx, ret,
          hist, wire, reader, frame, nread, evSent, arrived, taken, nTake,
          nClose, panic, opc, target, sessionID, opRet, eventCh, event,
          received, consumer, registry, alive, rpc, rarg, entries, instances,
          cleanupErrs, rret, rmFailed, before, nOps, spc, opts, userDataDir,
          tempDir, port, probes, proc, pgrp, wsURL, inst, stopped, parent, dirs,
          serving, signals, termTo, stages, freeProbed, supplied, rmAllFailed, todo,
          failed, other>>
regVars  == <<registry, alive, rpc, rarg, entries, instances, cleanupErrs, rret,
              rmFailed, before, nOps>>
\* A step of the connection engine leaves its user's variables and the
\* registry alone; so does a step of the dispatcher or of Listen.
supVars  == <<spc, opts, userDataDir, tempDir, port, probes, proc, pgrp, wsURL, inst,
              stopped, parent, dirs, serving, signals, termTo, stages, freeProbed,
              supplied, rmAllFailed, todo, failed, other>>
EngineOnly == UNCHANGED <<opVars, regVars, supVars>>
OpOnly     == UNCHANGED <<regVars, supVars>>

NoFrame == [wf |-> FALSE, obj |-> CDPMessage(0, "", NilRaw, "", NilRaw, NoError)]
NoRet   == [resp |-> <<>>, err |-> ""]
EmptyMap == [i \in {} |-> 0]

\* DialCDP(wsURL, withEvents) after a successful dial.
DialCDP(withEvents) ==
  /\ NextID = FirstID
  /\ Pending = [isNil |-> FALSE, slots |-> EmptyMap]
  /\ Events = [isNil |-> ~withEvents, q |-> <<>>, closed |-> FALSE]
  /\ Closed = FALSE
  /\ Mu = "free"
  /\ Conn = "open"
  /\ reader = "running"

\* The value of an error-typed result: nil, or an error of a class.
NoOpRet == [resp |-> <<>>, err |-> "", class |-> "", via |-> ""]
\* Before the dispatcher Send or Listen is entered with target t.
NoOp(t) ==
  /\ opc = "dial"
  /\ target = t
  /\ sessionID = ""
  /\ opRet = NoOpRet
  /\ eventCh = <<>>
  /\ event = <<>>
  /\ received = <<>>
  /\ consumer = "reading"

\* No Send is under way, nothing was read, nothing taken.
NoCalls ==
  /\ ch = [c \in Calls |-> [buf |-> <<>>, closed |-> FALSE]]
  /\ pc = [c \in Calls |-> "idle"]
  /\ id = [c \in Calls |-> 0]
  /\ arg = [c \in Calls |-> [method |-> "", params |-> NilRaw, session |-> ""]]
  /\ ctx = [c \in Calls |-> "active"]
  /\ ret = [c \in Calls |-> NoRet]
  /\ hist = [c \in Calls |-> {}]
  /\ wire = {}
  /\ frame = NoFrame
  /\ nread = 0
  /\ evSent = 0
  /\ arrived = <<>>
  /\ taken = <<>>
  /\ nTake = 0
  /\ nClose = 0
  /\ panic = "none"

\* What a registry operation returns: instances, a count, an error.
NoRRet == [op |-> "", insts |-> <<>>, count |-> 0, err |-> "", class |-> ""]
\* An empty instances directory and no registry operation under way.
NoRegistry ==
  /\ registry = EmptyMap
  /\ alive = {}
  /\ rpc = "idle"
  /\ rarg = 0
  /\ entries = <<>>
  /\ instances = <<>>
  /\ cleanupErrs = 0
  /\ rret = NoRRet
  /\ rmFailed = {}
  /\ before = EmptyMap
  /\ nOps = 0

\* A directory: the directory it is in and its name there. NoDir is "".
NoDir == [under |-> "", leaf |-> ""]
\* StartOptions{} (Headless is passed on to the browser and not modelled).
NoOpts == [Name |-> 0, Port |-> 0, UserDataDir |-> NoDir]
\* Neither StartBrowser nor StopInstance is under way; no directory exists
\* and no port answers.
\* A call of StartBrowser that has not been entered.
NoOther ==
  [rpc |-> "idle", rarg |-> 0, rret |-> NoRRet, before |-> EmptyMap,
   spc |-> "idle", opts |-> NoOpts, userDataDir |-> NoDir, tempDir |-> FALSE,
   port |-> 0, probes |-> 0, proc |-> 0, wsURL |-> "", rmAllFailed |-> {}]

NoSupervisor ==
  /\ spc = "idle"
  /\ opts = NoOpts
  /\ userDataDir = NoDir
  /\ tempDir = FALSE
  /\ port = 0
  /\ probes = 0
  /\ proc = 0
  /\ wsURL = ""
  /\ inst = <<>>
  /\ stopped = FALSE
  /\ parent = FALSE
  /\ dirs = {}
  /\ serving = EmptyMap
  /\ signals = <<>>
  /\ stages = <<>>
  /\ freeProbed = {}
  /\ supplied = {}
  /\ rmAllFailed = {}
  /\ todo = <<>>
  /\ failed = <<>>
  /\ pgrp = EmptyMap
  /\ termTo = {}
  /\ other = NoOther

Init ==
  /\ \E withEvents \in BOOLEAN : DialCDP(withEvents)
  /\ NoCalls
  /\ NoOp("")
  /\ NoRegistry
  /\ NoSupervisor

\* ------------------------------------------------------- the pending table
HasSlot(p, i) == ~p.isNil /\ i \in DOMAIN p.slots
\* Faulty variant: the reader hands a reply to the oldest pending slot
SlotOfOldest(p, i) == p.slots[CHOOSE j \in DOMAIN p.slots : \A k \in DOMAIN p.slots : j <= k]
\* ch, ok := c.Pending[msg.ID]
SlotOf(p, i)  == p.slots[i]
\* c.Pending[id] = ch
Register(p, i, c) ==
  [p EXCEPT !.slots = [j \in DOMAIN p.slots \cup {i} |->
                          IF j = i THEN c ELSE p.slots[j]]]
\* Faulty variant: the table is emptied
DeleteAll(p, i) == [p EXCEPT !.slots = EmptyMap]
\* Faulty variant: the entry is left in the table
DeleteNothing(p, i) == p
\* delete(c.Pending, id): no effect on a nil map or a missing key
Delete(p, i) ==
  [p EXCEPT !.slots = [j \in DOMAIN p.slots \ {i} |-> p.slots[j]]]

\* Faulty variant: the counter is read and not advanced
AllocIDStuck(n) == n
\* atomic.AddInt64(&c.NextID, 1)
AllocID(n) == n + 1

\* ------------------------------------------------------------------ Send
\* Send, lines 101-111: allocate the id, build and marshal the request, make
\* the channel. Calls are numbered in the order of their atomic increments.
SendCall(c, method, params, session) ==
  /\ panic = "none"
  /\ pc[c] = "idle"
  /\ \A b \in Calls : b < c => pc[b] # "idle"
  /\ NextID' = AllocID(NextID)
  /\ id' = [id EXCEPT ![c] = AllocID(NextID)]
  /\ arg' = [arg EXCEPT ![c] = [method |-> method, params |-> params,
                                 session |-> session]]
  /\ hist' = [hist EXCEPT ![c] = IF Pending.isNil THEN {"calledAfterClose"} ELSE {}]
  /\ IF Marshal(CDPMessage(AllocID(NextID), method, params, session, NilRaw, NoError)).ok
     THEN pc' = [pc EXCEPT ![c] = "lock"] /\ ret' = ret
     ELSE /\ pc' = [pc EXCEPT ![c] = "done"]
          /\ ret' = [ret EXCEPT ![c] = [resp |-> <<>>, err |-> "marshal error"]]
  /\ UNCHANGED <<Pending, Events, Closed, Mu, Conn, ch, ctx, reader, taken,
                 nTake, nClose, panic>>
  /\ UNCHANGED peerVars

\* Faulty variant: the closed connection is not noticed
NeverNilTable(p) == FALSE
\* Send, line 113: c.Pending == nil
IsNilTable(p) == p.isNil

\* Send, lines 112-118: under the lock, fail on a nil table or register the slot.
SendRegister(c) ==
  /\ panic = "none"
  /\ pc[c] = "lock"
  /\ Mu = "free"
  /\ IF IsNilTable(Pending)
     THEN /\ pc' = [pc EXCEPT ![c] = "done"]
          /\ ret' = [ret EXCEPT ![c] = [resp |-> <<>>, err |-> "connection closed"]]
          /\ UNCHANGED <<Pending, hist>>
     ELSE /\ Pending' = Register(Pending, id[c], c)
          /\ pc' = [pc EXCEPT ![c] = "write"]
          /\ hist' = [hist EXCEPT ![c] = @ \cup {"registered"}]
          /\ ret' = ret
  /\ UNCHANGED <<NextID, Events, Closed, Mu, Conn, ch, id, arg, ctx, reader,
                 taken, nTake, nClose, panic>>
  /\ UNCHANGED peerVars

\* The request Send writes.
Request(c) ==
  Marshal(CDPMessage(id[c], arg[c].method, arg[c].params, arg[c].session,
                     NilRaw, NoError)).data

\* Send, line 119: c.Conn.WriteMessage. It fails once the socket is closed and
\* may fail at any time (an I/O error).
SendWrite(c) ==
  /\ panic = "none"
  /\ pc[c] = "write"
  /\ \E written \in BOOLEAN :
       /\ written => Conn = "open"
       /\ IF written
          THEN /\ wire' = wire \cup {Request(c)}
               /\ pc' = [pc EXCEPT ![c] = "select"]
               /\ hist' = [hist EXCEPT ![c] = @ \cup {"wrote"}]
          ELSE /\ wire' = wire
               /\ pc' = [pc EXCEPT ![c] = "unreg"]
               /\ hist' = hist
  /\ UNCHANGED connVars
  /\ UNCHANGED <<ch, id, arg, ctx, ret, reader, frame, nread, evSent, arrived,
                 taken, nTake, nClose, panic>>

\* Faulty variant: a failed write returns without deregistering
SendWriteFailedLeak(c) ==
  /\ panic = "none"
  /\ pc[c] = "unreg"
  /\ Mu = "free"
  /\ pc' = [pc EXCEPT ![c] = "done"]
  /\ ret' = [ret EXCEPT ![c] = [resp |-> <<>>, err |-> "write error"]]
  /\ UNCHANGED <<NextID, Pending, Events, Closed, Mu, Conn, ch, id, arg, ctx,
                 hist, reader, taken, nTake, nClose, panic>>
  /\ UNCHANGED peerVars

\* Send, lines 120-123: the write failed; deregister and return the I/O error.
SendWriteFailed(c) ==
  /\ panic = "none"
  /\ pc[c] = "unreg"
  /\ Mu = "free"
  /\ Pending' = Delete(Pending, id[c])
  /\ pc' = [pc EXCEPT ![c] = "done"]
  /\ ret' = [ret EXCEPT ![c] = [resp |-> <<>>, err |-> "write error"]]
  /\ UNCHANGED <<NextID, Events, Closed, Mu, Conn, ch, id, arg, ctx, hist,
                 reader, taken, nTake, nClose, panic>>
  /\ UNCHANGED peerVars

\* Faulty variant: a reply that carries an error object is reported as a failure
ReceiveErrorAsFailure(k) ==
  IF Len(k.buf) > 0
  THEN [resp |-> <<Head(k.buf)>>,
        err |-> IF Head(k.buf).Error # NoError THEN "connection closed" ELSE ""]
  ELSE [resp |-> <<>>, err |-> "connection closed"]
\* What `resp, ok := <-ch` yields on a channel that is ready.
Receive(k) ==
  IF Len(k.buf) > 0
  THEN [resp |-> <<Head(k.buf)>>, err |-> ""]
  ELSE [resp |-> <<>>, err |-> "connection closed"]

\* The cases of the select (lines 125-136) that can proceed.
ReadyCases(c) ==
  (IF Len(ch[c].buf) > 0 \/ ch[c].closed THEN {"recv"} ELSE {})
    \cup (IF ctx[c] # "active" THEN {"ctx"} ELSE {})

\* Send, line 125: the select. With no case ready the goroutine parks; with
\* several ready the runtime picks one of them.
SendSelect(c) ==
  /\ panic = "none"
  /\ pc[c] = "select"
  /\ IF ReadyCases(c) = {}
     THEN /\ pc' = [pc EXCEPT ![c] = "parked"]
          /\ hist' = [hist EXCEPT ![c] = @ \cup {"parked"}]
          /\ UNCHANGED <<ch, ret>>
     ELSE \E case \in ReadyCases(c) :
            IF case = "recv"
            THEN /\ ret' = [ret EXCEPT ![c] = Receive(ch[c])]
                 /\ ch' = [ch EXCEPT ![c].buf = IF Len(@) > 0 THEN Tail(@) ELSE @]
                 /\ pc' = [pc EXCEPT ![c] = "done"]
                 /\ hist' = hist
            ELSE /\ pc' = [pc EXCEPT ![c] = "ctxdone"]
                 /\ UNCHANGED <<ch, ret, hist>>
  /\ UNCHANGED connVars
  /\ UNCHANGED <<id, arg, ctx, reader, taken, nTake, nClose, panic>>
  /\ UNCHANGED peerVars

\* Faulty variant: the context branch returns without deregistering
SendCtxDoneLeak(c) ==
  /\ panic = "none"
  /\ pc[c] = "ctxdone"
  /\ Mu = "free"
  /\ pc' = [pc EXCEPT ![c] = "done"]
  /\ ret' = [ret EXCEPT ![c] = [resp |-> <<>>, err |-> ctx[c]]]
  /\ UNCHANGED <<NextID, Pending, Events, Closed, Mu, Conn, ch, id, arg, ctx,
                 hist, reader, taken, nTake, nClose, panic>>
  /\ UNCHANGED peerVars

\* Send, lines 131-135: the context completed; deregister, return ctx.Err().
SendCtxDone(c) ==
  /\ panic = "none"
  /\ pc[c] = "ctxdone"
  /\ Mu = "free"
  /\ Pending' = Delete(Pending, id[c])
  /\ pc' = [pc EXCEPT ![c] = "done"]
  /\ ret' = [ret EXCEPT ![c] = [resp |-> <<>>, err |-> ctx[c]]]
  /\ UNCHANGED <<NextID, Events, Closed, Mu, Conn, ch, id, arg, ctx, hist,
                 reader, taken, nTake, nClose, panic>>
  /\ UNCHANGED peerVars

\* The caller's context completes (cancel or deadline): a Send parked in its
\* select wakes on the ctx.Done() case.
CtxComplete(c, why) ==
  /\ panic = "none"
  /\ ctx[c] = "active"
  /\ pc[c] # "done"
  /\ ctx' = [ctx EXCEPT ![c] = why]
  /\ pc' = [pc EXCEPT ![c] = IF @ = "parked" THEN "ctxdone" ELSE @]
  /\ hist' = [hist EXCEPT ![c] =
                 @ \cup (IF pc[c] = "parked" THEN {"ctxWhileParked"} ELSE {})
                   \cup (IF Len(ch[c].buf) = 0 THEN {"ctxBeforeReply"} ELSE {})]
  /\ UNCHANGED connVars
  /\ UNCHANGED <<ch, id, arg, ret, reader, taken, nTake, nClose, panic>>
  /\ UNCHANGED peerVars

\* ------------------------------------------------------------- readLoop
Range(f) == {f[x] : x \in DOMAIN f}

\* Faulty variant: teardown leaves the pending slots open
CloseNoSlots(p, k) == k
\* readLoop, lines 63-65: close(ch) for every slot of the table.
CloseSlots(p, k) ==
  [c \in Calls |-> IF ~p.isNil /\ c \in Range(p.slots)
                   THEN [k[c] EXCEPT !.closed = TRUE] ELSE k[c]]

\* The calls parked in their select that closing the slots wakes.
ParkedOn(p) == {c \in Calls : pc[c] = "parked" /\ CloseSlots(p, ch)[c].closed}

\* readLoop, lines 57-72: ReadMessage failed (the peer closed, the network
\* failed, or Close() closed the socket). Teardown under the lock.
ReadFail ==
  /\ panic = "none"
  /\ reader = "running"
  /\ Mu = "free"
  /\ Closed' = TRUE
  /\ IF \/ (~Pending.isNil /\ \E c \in Range(Pending.slots) : ch[c].closed)
        \/ (~Events.isNil /\ Events.closed)
     THEN /\ panic' = "close of closed channel"
          /\ UNCHANGED <<Pending, Events, ch, pc, ret, hist, reader>>
     ELSE /\ ch' = CloseSlots(Pending, ch)
          /\ pc' = [c \in Calls |-> IF c \in ParkedOn(Pending) THEN "done" ELSE pc[c]]
          /\ ret' = [c \in Calls |-> IF c \in ParkedOn(Pending)
                                     THEN Receive(CloseSlots(Pending, ch)[c])
                                     ELSE ret[c]]
          /\ hist' = [c \in Calls |-> IF c \in ParkedOn(Pending)
                                      THEN hist[c] \cup {"closedWhileParked"}
                                      ELSE hist[c]]
          /\ Pending' = [isNil |-> TRUE, slots |-> EmptyMap]
          /\ Events' = IF Events.isNil THEN Events ELSE [Events EXCEPT !.closed = TRUE]
          /\ reader' = "exited"
          /\ panic' = panic
  /\ UNCHANGED <<NextID, Mu, Conn, id, arg, ctx, taken, nTake, nClose>>
  /\ UNCHANGED peerVars

\* Faulty variant: a full queue drops its oldest event to take the new one
EnqueueDropOldest(q, m) ==
  IF Len(q) < EventCap THEN Append(q, m) ELSE Append(Tail(q), m)
\* The non-blocking send of lines 89-93 on a queue that is not closed.
Enqueue(q, m) == IF Len(q) < EventCap THEN Append(q, m) ELSE q

\* readLoop, lines 79-85: a frame with an id. `ch <- &msg` hands the message
\* to a parked receiver, else buffers it, else blocks (with the lock held).
Route(m) ==
  IF ~HasSlot(Pending, m.ID)
  THEN UNCHANGED <<Pending, ch, pc, ret, reader, Mu, panic>>
  ELSE LET c == SlotOf(Pending, m.ID) IN
       IF ch[c].closed
       THEN /\ panic' = "send on closed channel"
            /\ UNCHANGED <<Pending, ch, pc, ret, reader, Mu>>
       ELSE IF pc[c] = "parked"
       THEN /\ pc' = [pc EXCEPT ![c] = "done"]
            /\ ret' = [ret EXCEPT ![c] = Receive([ch[c] EXCEPT !.buf = <<m>>])]
            /\ Pending' = Delete(Pending, m.ID)
            /\ UNCHANGED <<ch, reader, Mu, panic>>
       ELSE IF Len(ch[c].buf) < SlotCap
       THEN /\ ch' = [ch EXCEPT ![c].buf = Append(@, m)]
            /\ Pending' = Delete(Pending, m.ID)
            /\ UNCHANGED <<pc, ret, reader, Mu, panic>>
       ELSE /\ reader' = "blocked"
            /\ Mu' = "reader"
            /\ UNCHANGED <<Pending, ch, pc, ret, panic>>

\* readLoop, lines 86-96: an event; dropped when the queue is full.
Publish(m) ==
  IF Closed
  THEN UNCHANGED <<Events, panic>>
  ELSE IF Events.closed
  THEN panic' = "send on closed channel" /\ Events' = Events
  ELSE Events' = [Events EXCEPT !.q = Enqueue(@, m)] /\ panic' = panic

\* Faulty variant: a frame that carries a method is an event, id or not
ClassifyMethodFirst(m, capture) ==
  IF m.Method # "" /\ capture THEN "event"
  ELSE IF m.ID # 0 THEN "response"
  ELSE "ignored"
\* How readLoop classifies a decoded frame (lines 79 and 86).
Classify(m, capture) ==
  IF m.ID # 0 THEN "response"
  ELSE IF m.Method # "" /\ capture THEN "event"
  ELSE "ignored"

\* readLoop, lines 56, 73-97: one frame read, decoded and handled.
ReadMessage(f) ==
  /\ panic = "none"
  /\ reader = "running"
  /\ Mu = "free"
  /\ frame' = f
  /\ nread' = nread + 1
  /\ LET u == Unmarshal(f)
         kind == IF u.ok THEN Classify(u.msg, ~Events.isNil) ELSE "undecodable"
     IN  /\ arrived' = IF kind = "event" THEN Append(arrived, u.msg) ELSE arrived
         /\ CASE kind = "response" -> Route(u.msg) /\ Events' = Events
              [] kind = "event" ->
                   Publish(u.msg) /\ UNCHANGED <<Pending, ch, pc, ret, reader, Mu>>
              [] OTHER ->
                   UNCHANGED <<Pending, Events, ch, pc, ret, reader, Mu, panic>>
  /\ hist' = [c \in Calls |->
                 IF pc[c] = "done" /\ f.wf /\ f.obj.ID = id[c]
                 THEN hist[c] \cup {"lateReply"} ELSE hist[c]]
  /\ UNCHANGED <<NextID, Closed, Conn, id, arg, ctx, taken, nTake, nClose>>

\* ----------------------------------------------------------------- Close
\* Close(), lines 139-141: closes the socket and nothing else.
Close ==
  /\ panic = "none"
  /\ nClose < MaxClose
  /\ Conn' = "closed"
  /\ nClose' = nClose + 1
  /\ UNCHANGED <<NextID, Pending, Events, Closed, Mu, reader, taken, nTake, panic>>
  /\ UNCHANGED callVars
  /\ UNCHANGED peerVars

\* A consumer's `event, ok := <-conn.Events` (Listen, line 206) on a queue
\* that holds an event.
TakeEvent ==
  /\ panic = "none"
  /\ ~Events.isNil
  /\ Len(Events.q) > 0
  /\ taken' = Append(taken, Head(Events.q))
  /\ Events' = [Events EXCEPT !.q = Tail(@)]
  /\ nTake' = nTake + 1
  /\ UNCHANGED <<NextID, Pending, Closed, Mu, Conn, reader, nClose, panic>>
  /\ UNCHANGED callVars
  /\ UNCHANGED peerVars

\* -------------------------------------------------------------- the peer
BadFrame == NoFrame
\* Frames a peer may send besides events: any id (allocated or not), with or
\* without method, result and error, and frames that do not decode.
PeerFrames ==
  {BadFrame} \cup
  {[wf |-> TRUE, obj |-> CDPMessage(i, s[1], NilRaw, "", s[2], s[3])] :
     i \in 0..(FirstID + MaxCalls),
     s \in {<<"", "[1]", NoError>>, <<"Ev", "[1]", ErrorObj>>}}
\* The n-th event of the peer.
EventFrame(n) ==
  [wf |-> TRUE, obj |-> CDPMessage(0, "Ev", ToString(n), "", NilRaw, NoError)]
\* The reply of an echoing peer to request r: {id, result: params}.
EchoReply(r) ==
  [wf |-> TRUE,
   obj |-> CDPMessage(r.obj.ID, "", NilRaw, "", r.obj.Params, NoError)]

PeerFrame ==
  /\ nread < MaxFrames
  /\ \E f \in PeerFrames : ReadMessage(f)
  /\ UNCHANGED <<wire, evSent>>
  /\ EngineOnly

PeerEcho ==
  \E r \in wire :
    /\ ReadMessage(EchoReply(r))
    /\ wire' = wire \ {r}
    /\ evSent' = evSent
    /\ EngineOnly

PeerFlood ==
  /\ evSent < FloodEvents
  /\ ReadMessage(EventFrame(evSent + 1))
  /\ evSent' = evSent + 1
  /\ wire' = wire
  /\ EngineOnly

TakeFlood == nTake < MaxTake /\ TakeEvent /\ EngineOnly

\* ---------------------------------------------------- the specifications
\* The steps of a Send that was called.
SendRun(c) ==
  \/ SendRegister(c) /\ EngineOnly
  \/ SendWrite(c) /\ EngineOnly
  \/ SendWriteFailed(c) /\ EngineOnly
  \/ SendSelect(c) /\ EngineOnly
  \/ SendCtxDone(c) /\ EngineOnly

SendStep(c, params, sessions) ==
  \/ (\E p \in params, s \in sessions : SendCall(c, "m", p, s)) /\ EngineOnly
  \/ SendRun(c)

CtxStep(c, errs) == (\E why \in errs : CtxComplete(c, why)) /\ EngineOnly

Next ==
  \/ \E c \in Calls : SendStep(c, SendParams, {""})
  \/ \E c \in Calls : CtxStep(c, {"context canceled"})
  \/ PeerFrame
  \/ TakeEvent /\ EngineOnly
  \/ ReadFail /\ EngineOnly
  \/ Close /\ EngineOnly

Spec == Init /\ [][Next]_vars

\* The peer echoes: it answers a request with {id, result: params}.
NextEcho ==
  \/ \E c \in Calls : SendStep(c, EchoParams, EchoSessions)
  \/ \E c \in Calls : CtxStep(c, {"context deadline exceeded"})
  \/ PeerEcho
  \/ ReadFail /\ EngineOnly

SpecEcho == Init /\ [][NextEcho]_vars

\* The peer floods the connection with events.
NextFlood == PeerFlood \/ TakeFlood \/ (ReadFail /\ EngineOnly)

SpecFlood == Init /\ [][NextFlood]_vars

\* Where a Send is, and what it returned.
Returned(c)    == pc[c] = "done"
GotResponse(c) == Returned(c) /\ ret[c].resp # <<>>
Allocated(c)   == pc[c] # "idle"
CtxErrors      == {"context canceled", "context deadline exceeded"}

\* ============================================ the dispatcher and Listen
\* utility.ErrUser / utility.ErrRuntime: an error of a class.
ErrUser(msg)    == [class |-> "user", msg |-> msg]
ErrRuntime(msg) == [class |-> "runtime", msg |-> msg]
\* `return nil, err` of the operation, by the return statement `via`.
Fail(e, via) == [resp |-> <<>>, err |-> e.msg, class |-> e.class, via |-> via]
\* `return resp, nil` / `return nil`.
Succeed(resp, via) == [resp |-> resp, err |-> "", class |-> "", via |-> via]

\* The context the operation passes to every Send it makes.
Ctx == ctx[1]
\* The Send the operation made last.
IsCur(c) == Allocated(c) /\ \A b \in Calls : b > c => ~Allocated(b)

\* Before DialCDP: no connection, no reader.
NotDialed ==
  /\ NextID = 0
  /\ Pending = [isNil |-> TRUE, slots |-> EmptyMap]
  /\ Events = [isNil |-> TRUE, q |-> <<>>, closed |-> FALSE]
  /\ Closed = FALSE
  /\ Mu = "free"
  /\ Conn = "none"
  /\ reader = "none"

\* DialCDP(wsURL, withEvents), lines 36-52, as a step: the dial succeeds and
\* the reader is started.
Dial(withEvents) ==
  /\ NextID' = FirstID
  /\ Pending' = [isNil |-> FALSE, slots |-> EmptyMap]
  /\ Events' = [isNil |-> ~withEvents, q |-> <<>>, closed |-> FALSE]
  /\ Closed' = FALSE
  /\ Mu' = "free"
  /\ Conn' = "open"
  /\ reader' = "running"

\* Lines 162-165 and 182-185: dial; a failed dial returns a runtime error
\* (no connection exists, nothing is deferred).
OpDial(withEvents, next) ==
  /\ panic = "none"
  /\ opc = "dial"
  /\ \E ok \in BOOLEAN :
       IF ok
       THEN Dial(withEvents) /\ opc' = next /\ opRet' = opRet
       ELSE /\ UNCHANGED <<NextID, Pending, Events, Closed, Mu, Conn, reader>>
            /\ opc' = "done"
            /\ opRet' = Fail(ErrRuntime("connecting"), "dial")
  /\ UNCHANGED <<target, sessionID, eventCh, event, received, consumer>>
  /\ UNCHANGED <<taken, nTake, nClose, panic>>
  /\ UNCHANGED callVars
  /\ UNCHANGED peerVars

\* Faulty variant: an attach result that does not decode yields no session
\* and no error.
SessionOfLenient(result) ==
  IF result = SessionResult THEN [ok |-> TRUE, sessionId |-> "S1"]
  ELSE [ok |-> TRUE, sessionId |-> ""]
\* AttachToTarget, lines 152-157: json.Unmarshal(attachResp.Result, &result)
\* into struct{SessionID}: no input and a JSON array fail, null leaves "".
SessionOf(result) ==
  IF result = SessionResult THEN [ok |-> TRUE, sessionId |-> "S1"]
  ELSE IF result = "null" THEN [ok |-> TRUE, sessionId |-> ""]
  ELSE [ok |-> FALSE, sessionId |-> ""]

\* Faulty variant: the error object of the attach reply is not looked at
AttachToTargetNoError(r) ==
  IF r.err # "" THEN [sessionId |-> "", err |-> r.err]
  ELSE IF ~SessionOf(r.resp[1].Result).ok
  THEN [sessionId |-> "", err |-> "json error"]
  ELSE [sessionId |-> SessionOf(r.resp[1].Result).sessionId, err |-> ""]
\* AttachToTarget, lines 146-158, from what its Send returned.
AttachToTarget(r) ==
  IF r.err # "" THEN [sessionId |-> "", err |-> r.err]
  ELSE IF r.resp[1].Error # NoError
  THEN [sessionId |-> "", err |-> "attach error: " \o r.resp[1].Error[1].Message]
  ELSE IF ~SessionOf(r.resp[1].Result).ok
  THEN [sessionId |-> "", err |-> "json error"]
  ELSE [sessionId |-> SessionOf(r.resp[1].Result).sessionId, err |-> ""]

\* AttachToTarget, lines 144-145: the attach command is sent with no session.
AttachCall ==
  /\ opc = "attach"
  /\ \E c \in Calls :
       SendCall(c, "Target.attachToTarget", AttachParams(target), "")
  /\ opc' = "attaching"
  /\ UNCHANGED <<target, sessionID, opRet, eventCh, event, received, consumer>>

\* Lines 169-172 and 189-192: AttachToTarget returned.
AttachReturn ==
  /\ panic = "none"
  /\ opc = "attaching"
  /\ \E c \in Calls :
       /\ IsCur(c) /\ Returned(c)
       /\ LET a == AttachToTarget(ret[c]) IN
            IF a.err # ""
            THEN /\ opRet' = Fail(ErrRuntime("attaching to target"), "attach")
                 /\ opc' = "return"
                 /\ sessionID' = sessionID
            ELSE /\ sessionID' = a.sessionId
                 /\ opc' = "call"
                 /\ opRet' = opRet
  /\ UNCHANGED <<target, eventCh, event, received, consumer>>
  /\ UNCHANGED <<reader, taken, nTake, nClose, panic>>
  /\ UNCHANGED connVars
  /\ UNCHANGED callVars
  /\ UNCHANGED peerVars

\* `defer conn.Close()` (lines 166 and 186) runs as the operation returns.
OpClose ==
  /\ opc = "return"
  /\ Close
  /\ opc' = "done"
  /\ UNCHANGED <<target, sessionID, opRet, eventCh, event, received, consumer>>

\* --------------------------------------------------- the dispatcher Send
\* Faulty variant: the browser-level sentinel is taken for a target id
NeedsAttachAny(t) == t # ""
\* Send, line 168: target != "" && target != "browser"
NeedsAttach(t) == t # "" /\ t # "browser"

\* Send, lines 162-168.
DispatchDial == OpDial(FALSE, IF NeedsAttach(target) THEN "attach" ELSE "call")

\* Send, line 174: conn.Send(ctx, method, params, sessionID).
DispatchCommand ==
  /\ opc = "call"
  /\ \E c \in Calls, p \in SendParams : SendCall(c, "m", p, sessionID)
  /\ opc' = "calling"
  /\ UNCHANGED <<target, sessionID, opRet, eventCh, event, received, consumer>>

\* Faulty variant: a reply with an error object is a dispatch failure
DispatchResultStrict(r) ==
  IF r.err # "" \/ r.resp[1].Error # NoError
  THEN Fail(ErrRuntime("sending command"), "call")
  ELSE Succeed(r.resp, "reply")
\* Send, lines 175-178, from what conn.Send returned.
DispatchResult(r) ==
  IF r.err # "" THEN Fail(ErrRuntime("sending command"), "call")
  ELSE Succeed(r.resp, "reply")

\* Send, lines 174-178: conn.Send returned.
DispatchReturn ==
  /\ panic = "none"
  /\ opc = "calling"
  /\ \E c \in Calls :
       /\ IsCur(c) /\ Returned(c)
       /\ opRet' = DispatchResult(ret[c])
  /\ opc' = "return"
  /\ UNCHANGED <<target, sessionID, eventCh, event, received, consumer>>
  /\ UNCHANGED <<reader, taken, nTake, nClose, panic>>
  /\ UNCHANGED connVars
  /\ UNCHANGED callVars
  /\ UNCHANGED peerVars

\* The operation's context completes (deadline or cancel): every Send made
\* with it sees ctx.Done(), and one parked in its select wakes on it.
CtxCancel(why) ==
  /\ panic = "none"
  /\ Ctx = "active"
  /\ opc # "done"
  /\ ctx' = [c \in Calls |-> why]
  /\ pc' = [c \in Calls |-> IF pc[c] = "parked" THEN "ctxdone" ELSE pc[c]]
  /\ hist' = [c \in Calls |->
                 hist[c] \cup (IF pc[c] = "parked" THEN {"ctxWhileParked"} ELSE {})]
  /\ UNCHANGED connVars
  /\ UNCHANGED <<ch, id, arg, ret, reader, taken, nTake, nClose, panic>>
  /\ UNCHANGED peerVars

OpCtxDone(why) == CtxCancel(why) /\ EngineOnly

\* What the peer answers a request with: a result that carries a session id,
\* the result null, another result, or an error object.
ReplyShapes ==
  {<<SessionResult, NoError>>, <<"null", NoError>>, <<"[1]", NoError>>,
   <<NilRaw, ErrorObj>>}
Reply(r, s) ==
  [wf |-> TRUE, obj |-> CDPMessage(r.obj.ID, "", NilRaw, "", s[1], s[2])]

PeerReply ==
  \E r \in wire, s \in ReplyShapes :
    /\ ReadMessage(Reply(r, s))
    /\ wire' = wire \ {r}
    /\ evSent' = evSent
    /\ EngineOnly

InitDispatch ==
  /\ NotDialed
  /\ NoCalls
  /\ \E t \in Targets : NoOp(t)
  /\ NoRegistry
  /\ NoSupervisor

NextDispatch ==
  \/ DispatchDial /\ OpOnly
  \/ AttachCall /\ OpOnly
  \/ AttachReturn /\ OpOnly
  \/ DispatchCommand /\ OpOnly
  \/ DispatchReturn /\ OpOnly
  \/ OpClose /\ OpOnly
  \/ \E c \in Calls : SendRun(c)
  \/ OpCtxDone("context deadline exceeded")
  \/ PeerReply
  \/ ReadFail /\ EngineOnly

SpecDispatch == InitDispatch /\ [][NextDispatch]_vars

\* ---------------------------------------------------------------- Listen
\* Listen, lines 182-188: dial with event capture; attach when target != "".
ListenDial == OpDial(TRUE, IF target # "" THEN "attach" ELSE "call")

\* Listen, lines 194-195: conn.Send(ctx, domain + ".enable", nil, sessionID).
ListenEnable ==
  /\ opc = "call"
  /\ \E c \in Calls : SendCall(c, "D.enable", NilRaw, sessionID)
  /\ opc' = "calling"
  /\ UNCHANGED <<target, sessionID, opRet, eventCh, event, received, consumer>>

\* Faulty variant: the error object of the enable reply is not looked at
EnableResultNoError(r) ==
  IF r.err # "" THEN Fail(ErrRuntime("enabling"), "call") ELSE NoOpRet
\* Listen, lines 196-201, from what conn.Send returned; no error goes on.
EnableResult(r) ==
  IF r.err # "" THEN Fail(ErrRuntime("enabling"), "call")
  ELSE IF r.resp[1].Error # NoError THEN Fail(ErrUser("enable error"), "protocol")
  ELSE NoOpRet

\* Listen, lines 195-201: the enable call returned.
ListenEnabled ==
  /\ panic = "none"
  /\ opc = "calling"
  /\ \E c \in Calls :
       /\ IsCur(c) /\ Returned(c)
       /\ opRet' = EnableResult(ret[c])
       /\ opc' = IF EnableResult(ret[c]).err # "" THEN "return" ELSE "relay"
  /\ UNCHANGED <<target, sessionID, eventCh, event, received, consumer>>
  /\ UNCHANGED <<reader, taken, nTake, nClose, panic>>
  /\ UNCHANGED connVars
  /\ UNCHANGED callVars
  /\ UNCHANGED peerVars

\* Faulty variant: a closed queue yields !ok at once, events left or not
RecvOkOpenOnly(e) == Len(e.q) > 0 /\ ~e.closed
\* `event, ok := <-conn.Events` on a queue that is ready: ok while the queue
\* holds events, closed or not.
RecvOk(e) == Len(e.q) > 0

\* The cases of the outer select (lines 203-206) that can proceed.
RelayReady ==
  (IF Ctx # "active" THEN {"ctx"} ELSE {})
    \cup (IF Len(Events.q) > 0 \/ Events.closed THEN {"recv"} ELSE {})

\* Listen, lines 203-209: the outer select. It blocks while no case is ready;
\* a closed queue still yields the events left in it, then !ok.
ListenSelect ==
  /\ panic = "none"
  /\ opc = "relay"
  /\ \E case \in RelayReady :
       IF case = "recv" /\ RecvOk(Events)
       THEN /\ TakeEvent
            /\ event' = <<Head(Events.q)>>
            /\ opc' = "offer"
            /\ opRet' = opRet
       ELSE /\ opRet' = Succeed(<<>>, IF case = "ctx" THEN "ctx" ELSE "closed")
            /\ opc' = "return"
            /\ event' = event
            /\ UNCHANGED <<reader, taken, nTake, nClose, panic>>
            /\ UNCHANGED connVars
            /\ UNCHANGED callVars
            /\ UNCHANGED peerVars
  /\ UNCHANGED <<target, sessionID, eventCh, received, consumer>>

\* Faulty variant: the context is not watched while offering
OfferReadyNoCtx(q) == IF Len(q) < OutCap THEN {"send"} ELSE {}
\* The cases of the inner select (lines 210-214) that can proceed on output
\* channel q.
OfferReady(q) ==
  (IF Len(q) < OutCap THEN {"send"} ELSE {})
    \cup (IF Ctx # "active" THEN {"ctx"} ELSE {})

\* Listen, lines 210-214: the inner select. It blocks while the output
\* channel is full and the context is active.
ListenOffer ==
  /\ panic = "none"
  /\ opc = "offer"
  /\ \E case \in OfferReady(eventCh) :
       IF case = "send"
       THEN /\ eventCh' = Append(eventCh, event[1])
            /\ event' = <<>>
            /\ opc' = "relay"
            /\ opRet' = opRet
       ELSE /\ opRet' = Succeed(<<>>, "ctx")
            /\ opc' = "return"
            /\ UNCHANGED <<eventCh, event>>
  /\ UNCHANGED <<target, sessionID, received, consumer>>
  /\ UNCHANGED <<reader, taken, nTake, nClose, panic>>
  /\ UNCHANGED connVars
  /\ UNCHANGED callVars
  /\ UNCHANGED peerVars

\* runListen (part_009, line 62): the caller receives from the output channel.
Consume ==
  /\ panic = "none"
  /\ consumer = "reading"
  /\ Len(eventCh) > 0
  /\ received' = Append(received, Head(eventCh))
  /\ eventCh' = Tail(eventCh)
  /\ UNCHANGED <<opc, target, sessionID, opRet, event, consumer>>
  /\ UNCHANGED <<reader, taken, nTake, nClose, panic>>
  /\ UNCHANGED connVars
  /\ UNCHANGED callVars
  /\ UNCHANGED peerVars

\* runListen returns after an event (lines 71, 77, 82): it reads no more, and
\* its deferred cancel() (line 45) cancels the context.
ConsumerStop ==
  /\ consumer = "reading"
  /\ Len(received) > 0
  /\ CtxCancel("context canceled")
  /\ consumer' = "stopped"
  /\ UNCHANGED <<opc, target, sessionID, opRet, eventCh, event, received>>

PeerEvent ==
  /\ evSent < MaxEvents
  /\ ReadMessage(EventFrame(evSent + 1))
  /\ evSent' = evSent + 1
  /\ wire' = wire
  /\ EngineOnly

InitListen ==
  /\ NotDialed
  /\ NoCalls
  /\ \E t \in OpTargets : NoOp(t)
  /\ NoRegistry
  /\ NoSupervisor

NextListen ==
  \/ ListenDial /\ OpOnly
  \/ AttachCall /\ OpOnly
  \/ AttachReturn /\ OpOnly
  \/ ListenEnable /\ OpOnly
  \/ ListenEnabled /\ OpOnly
  \/ ListenSelect /\ OpOnly
  \/ ListenOffer /\ OpOnly
  \/ OpClose /\ OpOnly
  \/ Consume /\ OpOnly
  \/ ConsumerStop /\ OpOnly
  \/ \E c \in Calls : SendRun(c)
  \/ OpCtxDone("context canceled")
  \/ PeerReply
  \/ PeerEvent
  \/ ReadFail /\ EngineOnly

SpecListen == InitListen /\ [][NextListen]_vars

\* Listen is a goroutine that runs while it can step, its deferred Close
\* runs, and runListen keeps receiving from the output channel until it
\* returns.
SpecListenFair ==
  /\ SpecListen
  /\ WF_vars(ListenSelect /\ OpOnly) /\ WF_vars(ListenOffer /\ OpOnly)
  /\ WF_vars(OpClose /\ OpOnly) /\ WF_vars(Consume /\ OpOnly)

\* ========================================================== the registry
\* Instance names (the n-th name in the order os.ReadDir lists the files)
\* and the process id recorded under each.
Names    == 1..MaxNames
PidOf(n) == 1000 + n
\* The content of <name>.json: an Instance, or bytes json.Unmarshal rejects.
\* The WebSocket endpoint of the browser with process id pid on port p.
WsOf(p, pid) ==
  "ws://127.0.0.1:" \o ToString(p) \o "/devtools/browser/" \o ToString(pid)
\* Instance{Name, PID, Port, WsURL, UserDataDir} (Started is not modelled).
Instance(n, pid, p, ws, dir) ==
  [Name |-> n, PID |-> pid, Port |-> p, WsURL |-> ws, UserDataDir |-> dir,
   valid |-> TRUE]
Record(n, valid) ==
  [Instance(n, PidOf(n), 0, "", NoDir) EXCEPT !.valid = valid]
NoInstance == [Record(0, FALSE) EXCEPT !.PID = 0]

RegistryOnly ==
  /\ UNCHANGED <<reader, taken, nTake, nClose, panic>>
  /\ UNCHANGED connVars
  /\ UNCHANGED callVars
  /\ UNCHANGED peerVars
  /\ UNCHANGED opVars
  /\ UNCHANGED supVars

\* LoadInstance(name), lines 97-109: read and decode <name>.json.
LoadInstance(reg, n) ==
  IF n \in DOMAIN reg /\ reg[n].valid
  THEN [ok |-> TRUE, inst |-> reg[n]]
  ELSE [ok |-> FALSE, inst |-> NoInstance]

\* Faulty variant: every recorded process is taken to be alive
IsProcessAliveAlways(pid) == TRUE
\* IsProcessAlive(pid), lines 179-186: signal 0 reaches the process.
IsProcessAlive(pid) == pid \in alive

\* Faulty variant: the file is left in place
RemoveNothing(reg, n) == reg
\* RemoveInstance(name), lines 111-113, when os.Remove succeeds.
RemoveInstance(reg, n) == [m \in DOMAIN reg \ {n} |-> reg[m]]

\* os.ReadDir(InstancesDir): the entries, sorted by file name.
ReadDir(reg) ==
  CHOOSE q \in [1..Cardinality(DOMAIN reg) -> DOMAIN reg] :
    \A i, j \in 1..Cardinality(DOMAIN reg) : i < j => q[i] < q[j]

\* Faulty variant: a failed removal is not counted
CountNothing(n, removed) == n
\* ListInstances, lines 365-368: cleanupErrs++ when RemoveInstance failed.
CountCleanupErr(n, removed) == IF removed THEN n ELSE n + 1

\* ListInstances, lines 345-353: read the directory. An unreadable directory
\* is a runtime error.
ListStart ==
  /\ rpc \in {"idle", "done"}
  /\ nOps < MaxOps
  /\ nOps' = nOps + 1
  /\ before' = registry
  /\ rmFailed' = {}
  /\ rarg' = 0
  /\ instances' = <<>>
  /\ cleanupErrs' = 0
  /\ \E ok \in BOOLEAN :
       IF ok
       THEN entries' = ReadDir(registry) /\ rpc' = "list" /\ rret' = NoRRet
       ELSE /\ entries' = <<>>
            /\ rpc' = "done"
            /\ rret' = [op |-> "list", insts |-> <<>>, count |-> 0,
                        err |-> ErrRuntime("reading instances dir").msg,
                        class |-> ErrRuntime("reading instances dir").class]
  /\ UNCHANGED <<registry, alive>>

\* ListInstances, lines 354-372: one entry of the scan. A record that does
\* not load is skipped; a dead one is removed, and a failed removal counted;
\* a live one is appended.
ListScan ==
  /\ rpc = "list"
  /\ entries # <<>>
  /\ entries' = Tail(entries)
  /\ LET n == Head(entries)
         l == LoadInstance(registry, n)
     IN  IF ~l.ok
         THEN UNCHANGED <<registry, instances, cleanupErrs, rmFailed>>
         ELSE IF ~IsProcessAlive(l.inst.PID)
         THEN \E removed \in BOOLEAN :
                /\ registry' = IF removed THEN RemoveInstance(registry, n)
                               ELSE registry
                /\ cleanupErrs' = CountCleanupErr(cleanupErrs, removed)
                /\ rmFailed' = IF removed THEN rmFailed ELSE rmFailed \cup {n}
                /\ instances' = instances
         ELSE /\ instances' = Append(instances, l.inst)
              /\ UNCHANGED <<registry, cleanupErrs, rmFailed>>
  /\ UNCHANGED <<alive, rpc, rarg, rret, before, nOps>>

\* ListInstances, lines 373-376: the scan is over.
ListReturn ==
  /\ rpc = "list"
  /\ entries = <<>>
  /\ rret' = [op |-> "list", insts |-> instances, count |-> cleanupErrs,
              err |-> "", class |-> ""]
  /\ rpc' = "done"
  /\ UNCHANGED <<registry, alive, rarg, entries, instances, cleanupErrs,
                 rmFailed, before, nOps>>

\* ResolveInstance(name), lines 210-221, name != "": load, probe, and remove
\* the record of a dead process (the result of the removal is discarded).
ResolveNamed(name) ==
  /\ rpc \in {"idle", "done"}
  /\ nOps < MaxOps
  /\ nOps' = nOps + 1
  /\ before' = registry
  /\ rarg' = name
  /\ rpc' = "done"
  /\ LET l == LoadInstance(registry, name) IN
       IF ~l.ok
       THEN /\ rret' = [op |-> "resolve", insts |-> <<>>, count |-> 0,
                        err |-> ErrUser("instance not found").msg,
                        class |-> ErrUser("instance not found").class]
            /\ registry' = registry
            /\ rmFailed' = {}
       ELSE IF ~IsProcessAlive(l.inst.PID)
       THEN /\ rret' = [op |-> "resolve", insts |-> <<>>, count |-> 0,
                        err |-> ErrUser("instance not running").msg,
                        class |-> ErrUser("instance not running").class]
            /\ \E removed \in BOOLEAN :
                 /\ registry' = IF removed THEN RemoveInstance(registry, name)
                                ELSE registry
                 /\ rmFailed' = IF removed THEN {} ELSE {name}
       ELSE /\ rret' = [op |-> "resolve", insts |-> <<l.inst>>, count |-> 0,
                        err |-> "", class |-> ""]
            /\ registry' = registry
            /\ rmFailed' = {}
  /\ UNCHANGED <<alive, entries, instances, cleanupErrs>>

\* Faulty variant: the record of a dead process is left in place
FindPurgeNever(reg, n, removed) == reg
\* FindFirstInstance, line 204: `_ = RemoveInstance(name)`; a failed os.Remove
\* leaves the file and is not reported.
FindPurge(reg, n, removed) == IF removed THEN RemoveInstance(reg, n) ELSE reg

\* ResolveInstance(""), line 222, and FindFirstInstance, lines 189-192: read
\* the directory. An unreadable directory is a user error.
FindStart ==
  /\ rpc \in {"idle", "done"}
  /\ nOps < MaxOps
  /\ nOps' = nOps + 1
  /\ before' = registry
  /\ rmFailed' = {}
  /\ rarg' = 0
  /\ \E ok \in BOOLEAN :
       IF ok
       THEN entries' = ReadDir(registry) /\ rpc' = "find" /\ rret' = NoRRet
       ELSE /\ entries' = <<>>
            /\ rpc' = "done"
            /\ rret' = [op |-> "find", insts |-> <<>>, count |-> 0,
                        err |-> ErrUser("no instances found").msg,
                        class |-> ErrUser("no instances found").class]
  /\ UNCHANGED <<registry, alive, instances, cleanupErrs>>

\* FindFirstInstance, lines 193-206: one entry of the scan. A record that does
\* not load is skipped, a live one is returned, a dead one is removed.
FindScan ==
  /\ rpc = "find"
  /\ entries # <<>>
  /\ entries' = Tail(entries)
  /\ LET n == Head(entries)
         l == LoadInstance(registry, n)
     IN  IF ~l.ok
         THEN UNCHANGED <<registry, rmFailed, rpc, rret>>
         ELSE IF IsProcessAlive(l.inst.PID)
         THEN /\ rret' = [op |-> "find", insts |-> <<l.inst>>, count |-> 0,
                          err |-> "", class |-> ""]
              /\ rpc' = "done"
              /\ UNCHANGED <<registry, rmFailed>>
         ELSE \E removed \in BOOLEAN :
                /\ registry' = FindPurge(registry, n, removed)
                /\ rmFailed' = IF removed THEN rmFailed ELSE rmFailed \cup {n}
                /\ UNCHANGED <<rpc, rret>>
  /\ UNCHANGED <<alive, rarg, instances, cleanupErrs, before, nOps>>

\* FindFirstInstance, line 207: no entry was live.
FindNone ==
  /\ rpc = "find"
  /\ entries = <<>>
  /\ rret' = [op |-> "find", insts |-> <<>>, count |-> 0,
              err |-> ErrUser("no running instances").msg,
              class |-> ErrUser("no running instances").class]
  /\ rpc' = "done"
  /\ UNCHANGED <<registry, alive, rarg, entries, instances, cleanupErrs,
                 rmFailed, before, nOps>>

\* A recorded process exits, between two operations.
ProcessExit ==
  /\ rpc \in {"idle", "done"}
  /\ \E p \in alive : alive' = alive \ {p}
  /\ rpc' = "idle"
  /\ UNCHANGED <<registry, rarg, entries, instances, cleanupErrs, rret,
                 rmFailed, before, nOps>>

\* Any instances directory: records of some names, some of them unreadable,
\* and any of the recorded processes alive.
InitRegistry ==
  /\ NotDialed
  /\ NoCalls
  /\ NoOp("")
  /\ \E D \in SUBSET Names : \E bad \in SUBSET D :
       registry = [n \in D |-> Record(n, n \notin bad)]
  /\ alive \in SUBSET {PidOf(n) : n \in Names}
  /\ rpc = "idle"
  /\ rarg = 0
  /\ entries = <<>>
  /\ instances = <<>>
  /\ cleanupErrs = 0
  /\ rret = NoRRet
  /\ rmFailed = {}
  /\ before = registry
  /\ nOps = 0
  /\ NoSupervisor

NextRegistry ==
  \/ ListStart /\ RegistryOnly
  \/ ListScan /\ RegistryOnly
  \/ ListReturn /\ RegistryOnly
  \/ (\E name \in Names : ResolveNamed(name)) /\ RegistryOnly
  \/ FindStart /\ RegistryOnly
  \/ FindScan /\ RegistryOnly
  \/ FindNone /\ RegistryOnly
  \/ ProcessExit /\ RegistryOnly

SpecRegistry == InitRegistry /\ [][NextRegistry]_vars

\* ======================================================== the supervisor
\* os.TempDir(), and the directories a caller may pass: one elsewhere and one
\* of the caller's own under os.TempDir().
TempDir    == "/tmp"
CallerDirs == {[under |-> "/home/u", leaf |-> "profile"],
               [under |-> TempDir, leaf |-> "profile"]}
\* os.MkdirTemp("", "cdp-"+name+"-"): a new directory under os.TempDir(); k
\* stands for the random suffix.
MkdirTemp(n, k) ==
  [under |-> TempDir, leaf |-> "cdp-" \o ToString(n) \o "-" \o ToString(k)]
\* The pid of the process the k-th operation launches.
NewPid(k) == 2000 + k
\* The pid the system gives the next process: one no process has had.
FreshPid(g) ==
  NewPid(CHOOSE k \in 1..(MaxOps + 1) :
           /\ NewPid(k) \notin DOMAIN g
           /\ \A j \in 1..(k - 1) : NewPid(j) \in DOMAIN g)
\* The process group of the program that calls StartBrowser.
SelfPgid == 1
\* SysProcAttr{Setpgid: true} (line 283): the child is put into a new process
\* group, whose id is the child's pid, instead of its parent's group.
Setpgid(pid, inherited) == pid
\* Process pid is in group g.
Grouped(gs, pid, g) == [q \in DOMAIN gs \cup {pid} |-> IF q = pid THEN g ELSE gs[q]]
\* A child process of the browser pid (a renderer, the GPU process).
HelperOf(pid) == pid + 1000
\* proc.Signal(sig) (line 156) is kill(pid, sig): it reaches the process pid.
Signal(pid) == {pid}

\* What StartBrowser and StopInstance leave alone.
StartOnly ==
  /\ UNCHANGED <<reader, taken, nTake, nClose, panic>>
  /\ UNCHANGED connVars
  /\ UNCHANGED callVars
  /\ UNCHANGED peerVars
  /\ UNCHANGED opVars
  /\ UNCHANGED <<entries, instances, cleanupErrs, rmFailed>>
  /\ UNCHANGED <<inst, stopped, parent, signals, termTo, stages, todo, failed,
                 other>>

\* `return nil, err` of StartBrowser, `return inst, nil`, and the same for
\* StopInstance and StopAllInstances.
Returns(op, e) ==
  [op |-> op, insts |-> <<>>, count |-> 0, err |-> e.msg, class |-> e.class]
ReturnsInst(op, i) ==
  [op |-> op, insts |-> <<i>>, count |-> 0, err |-> "", class |-> ""]
ReturnsNil(op) ==
  [op |-> op, insts |-> <<>>, count |-> 0, err |-> "", class |-> ""]

\* A GET of /json/version on port p is answered.
Answers(srv, p) == p \in DOMAIN srv
\* The ports pid served are released when it exits.
Unserve(srv, pid) == [q \in {q \in DOMAIN srv : srv[q] # pid} |-> srv[q]]
\* A process binds a port.
Serve(srv, p, pid) == [q \in DOMAIN srv \cup {p} |-> IF q = p THEN pid ELSE srv[q]]

\* cleanup(), lines 254-258: os.RemoveAll(userDataDir) when tempDir; its
\* result is discarded.
Cleanup(ds, dir, temp, removed) == IF temp /\ removed THEN ds \ {dir} ELSE ds
\* The directories a removal of dir left in place.
NotRemoved(dir, temp, removed) == IF temp /\ ~removed THEN {dir} ELSE {}

\* Faulty variant: the process is left running
KillNobody(procs, pid) == procs
\* proc.Process.Kill(): the process is gone.
Kill(procs, pid) == procs \ {pid}

\* Faulty variant: the name is not looked up
NotRegistered(reg, n) == FALSE
\* StartBrowser, lines 241-244: LoadInstance(name) succeeded.
AlreadyExists(reg, n) == LoadInstance(reg, n).ok

\* StartBrowser, lines 233-258: the binary, the name, the lookup of the name
\* and the working directory. GenerateName() may yield any name.
StartCall(o) ==
  /\ rpc \in {"idle", "done"}
  /\ nOps < MaxOps
  /\ nOps' = nOps + 1
  /\ before' = registry
  /\ opts' = o
  /\ probes' = 0
  /\ proc' = 0
  /\ pgrp' = pgrp
  /\ wsURL' = ""
  /\ freeProbed' = {}
  /\ rmAllFailed' = {}
  /\ \E installed \in BOOLEAN, n \in Names, made \in BOOLEAN :
       /\ o.Name # 0 => n = o.Name
       /\ rarg' = IF installed THEN n ELSE 0
       /\ IF ~installed
          THEN /\ rret' = Returns("start", ErrUser("no chrome installed"))
               /\ rpc' = "done" /\ spc' = "idle"
               /\ userDataDir' = NoDir /\ tempDir' = FALSE /\ port' = 0
               /\ UNCHANGED <<dirs, supplied>>
          ELSE IF AlreadyExists(registry, n)
          THEN /\ rret' = Returns("start", ErrUser("instance already exists"))
               /\ rpc' = "done" /\ spc' = "idle"
               /\ userDataDir' = NoDir /\ tempDir' = FALSE /\ port' = 0
               /\ UNCHANGED <<dirs, supplied>>
          ELSE IF o.UserDataDir = NoDir /\ ~made
          THEN /\ rret' = Returns("start", ErrRuntime("creating temp dir"))
               /\ rpc' = "done" /\ spc' = "idle"
               /\ userDataDir' = NoDir /\ tempDir' = FALSE /\ port' = 0
               /\ UNCHANGED <<dirs, supplied>>
          ELSE /\ rret' = NoRRet
               /\ rpc' = "start"
               /\ tempDir' = (o.UserDataDir = NoDir)
               /\ userDataDir' = IF o.UserDataDir = NoDir
                                 THEN MkdirTemp(n, nOps + 1) ELSE o.UserDataDir
               /\ dirs' = IF o.UserDataDir = NoDir
                          THEN dirs \cup {MkdirTemp(n, nOps + 1)} ELSE dirs
               /\ supplied' = IF o.UserDataDir = NoDir THEN supplied
                              ELSE supplied \cup {o.UserDataDir}
               /\ port' = IF o.Port = 0 THEN DefaultPort ELSE o.Port
               /\ spc' = IF o.Port = 0 THEN "probe" ELSE "launch"
  /\ UNCHANGED <<registry, alive, serving>>

\* StartBrowser, lines 262-269: one turn of the port loop, or its end after
\* ProbeCap turns.
StartProbe ==
  /\ rpc = "start" /\ spc = "probe"
  /\ IF probes < ProbeCap
     THEN IF Answers(serving, port)
          THEN /\ port' = port + 1
               /\ probes' = probes + 1
               /\ UNCHANGED <<spc, freeProbed>>
          ELSE /\ spc' = "launch"
               /\ freeProbed' = freeProbed \cup {port}
               /\ probes' = probes + 1
               /\ port' = port
     ELSE /\ spc' = "launch"
          /\ UNCHANGED <<port, probes, freeProbed>>
  /\ UNCHANGED <<registry, alive, rpc, rarg, rret, before, nOps, opts,
                 userDataDir, tempDir, proc, pgrp, wsURL, dirs, serving, supplied,
                 rmAllFailed>>

\* StartBrowser, lines 282-288: proc.Start(). The browser makes its working
\* directory if it is not there. A failed launch cleans up.
StartLaunch ==
  /\ rpc = "start" /\ spc = "launch"
  /\ \E started \in BOOLEAN :
       IF started
       THEN /\ proc' = FreshPid(pgrp)
            /\ alive' = alive \cup {FreshPid(pgrp)}
            /\ pgrp' = Grouped(pgrp, FreshPid(pgrp), Setpgid(FreshPid(pgrp), SelfPgid))
            /\ dirs' = dirs \cup {userDataDir}
            /\ spc' = "wait"
            /\ UNCHANGED <<rpc, rret, rmAllFailed>>
       ELSE /\ \E removed \in BOOLEAN :
                 /\ dirs' = Cleanup(dirs, userDataDir, tempDir, removed)
                 /\ rmAllFailed' = NotRemoved(userDataDir, tempDir, removed)
            /\ rret' = Returns("start", ErrRuntime("starting chrome"))
            /\ rpc' = "done" /\ spc' = "idle"
            /\ UNCHANGED <<proc, pgrp, alive>>
  /\ UNCHANGED <<registry, rarg, before, nOps, opts, userDataDir, tempDir,
                 port, probes, wsURL, serving, freeProbed, supplied>>

\* The failure path of lines 291-293, 297-299 and 311-313: Kill, cleanup(),
\* return the error.
StartAbort(e) ==
  /\ alive' = Kill(alive, proc)
  /\ serving' = Unserve(serving, proc)
  /\ \E removed \in BOOLEAN :
       /\ dirs' = Cleanup(dirs, userDataDir, tempDir, removed)
       /\ rmAllFailed' = NotRemoved(userDataDir, tempDir, removed)
  /\ rret' = Returns("start", e)
  /\ rpc' = "done" /\ spc' = "idle"

\* StartBrowser, lines 289-294: WaitForPort(port, 30s) returns once a GET is
\* answered, or fails when the deadline passes first.
StartWait ==
  /\ rpc = "start" /\ spc = "wait"
  /\ \E answered \in BOOLEAN :
       /\ answered => Answers(serving, port)
       /\ IF answered
          THEN /\ spc' = "wsurl"
               /\ UNCHANGED <<alive, serving, dirs, rret, rpc, rmAllFailed>>
          ELSE StartAbort(ErrRuntime("timeout waiting for port"))
  /\ UNCHANGED <<registry, rarg, before, nOps, opts, userDataDir, tempDir,
                 port, probes, proc, pgrp, wsURL, freeProbed, supplied>>

\* StartBrowser, lines 295-300: GetWsURL(port). The GET or the decoding may
\* fail; a document without the field decodes to "".
StartWsURL ==
  /\ rpc = "start" /\ spc = "wsurl"
  /\ \E got \in WsURLAnswers :
       /\ got # "error" => Answers(serving, port)
       /\ IF got = "error"
          THEN StartAbort(ErrRuntime("getting ws url")) /\ wsURL' = wsURL
          ELSE /\ wsURL' = IF got = "url" THEN WsOf(port, serving[port]) ELSE ""
               /\ spc' = "save"
               /\ UNCHANGED <<alive, serving, dirs, rret, rpc, rmAllFailed>>
  /\ UNCHANGED <<registry, rarg, before, nOps, opts, userDataDir, tempDir,
                 port, probes, proc, pgrp, freeProbed, supplied>>

\* SaveInstance(inst), lines 84-95: the file is written; or nothing is (the
\* directory or the file could not be made); or os.WriteFile failed part way
\* and left bytes that do not decode.
SaveInstance(reg, i, outcome) ==
  CASE outcome = "written" ->
         [n \in DOMAIN reg \cup {i.Name} |-> IF n = i.Name THEN i ELSE reg[n]]
    [] outcome = "partial" ->
         [n \in DOMAIN reg \cup {i.Name} |->
            IF n = i.Name THEN Record(i.Name, FALSE) ELSE reg[n]]
    [] OTHER -> reg

\* StartBrowser, lines 301-315: build the record and save it.
StartSave ==
  /\ rpc = "start" /\ spc = "save"
  /\ LET i == Instance(rarg, proc, port, wsURL, userDataDir) IN
     \E outcome \in WriteOutcomes :
       /\ registry' = SaveInstance(registry, i, outcome)
       /\ IF outcome = "written"
          THEN /\ rret' = ReturnsInst("start", i)
               /\ rpc' = "done" /\ spc' = "idle"
               /\ UNCHANGED <<alive, serving, dirs, rmAllFailed>>
          ELSE StartAbort(ErrRuntime("saving instance"))
  /\ UNCHANGED <<rarg, before, nOps, opts, userDataDir, tempDir, port,
                 probes, proc, pgrp, wsURL, freeProbed, supplied>>

\* The browser that was launched starts answering on its port, if the port
\* is free.
BrowserReady ==
  /\ rpc = "start" /\ spc = "wait"
  /\ proc \in alive
  /\ ~Answers(serving, port)
  /\ serving' = Serve(serving, port, proc)
  /\ UNCHANGED <<registry, alive, rpc, rarg, rret, before, nOps, spc, opts,
                 userDataDir, tempDir, port, probes, proc, pgrp, wsURL, dirs,
                 freeProbed, supplied, rmAllFailed>>

\* The browser that was launched exits while StartBrowser is under way.
BrowserCrash ==
  /\ rpc = "start" /\ spc \in {"wait", "wsurl", "save"}
  /\ proc \in alive
  /\ alive' = alive \ {proc}
  /\ serving' = Unserve(serving, proc)
  /\ UNCHANGED <<registry, rpc, rarg, rret, before, nOps, spc, opts,
                 userDataDir, tempDir, port, probes, proc, pgrp, wsURL, dirs,
                 freeProbed, supplied, rmAllFailed>>

\* The launched browser forks a child; the child inherits its process group.
BrowserForks ==
  /\ rpc = "start" /\ spc \in {"wait", "wsurl", "save"}
  /\ proc \in alive
  /\ HelperOf(proc) \notin DOMAIN pgrp
  /\ pgrp' = Grouped(pgrp, HelperOf(proc), pgrp[proc])
  /\ UNCHANGED <<registry, alive, rpc, rarg, rret, before, nOps, spc, opts,
                 userDataDir, tempDir, port, probes, proc, wsURL, dirs,
                 serving, freeProbed, supplied, rmAllFailed>>

\* Another program starts to answer on the chosen port, after the probe of the
\* port loop and before the browser has bound it.
OtherBinds ==
  /\ rpc = "start" /\ spc \in {"launch", "wait"}
  /\ ~Answers(serving, port)
  /\ serving' = Serve(serving, port, 0)
  /\ UNCHANGED <<registry, alive, rpc, rarg, rret, before, nOps, spc, opts,
                 userDataDir, tempDir, port, probes, proc, pgrp, wsURL, dirs,
                 freeProbed, supplied, rmAllFailed>>

\* ---------------------------------------------------------- StopInstance
\* What StopInstance leaves alone, and the steps of it that do not touch the
\* connection.
StopOnly ==
  /\ UNCHANGED opVars
  /\ UNCHANGED <<entries, instances, cleanupErrs>>
  /\ UNCHANGED <<opts, userDataDir, tempDir, port, probes, proc, pgrp, wsURL,
                 freeProbed, supplied, parent, other>>
NoEngine ==
  /\ UNCHANGED <<reader, taken, nTake, nClose, panic>>
  /\ UNCHANGED connVars
  /\ UNCHANGED callVars
  /\ UNCHANGED peerVars

\* How a stage of StopInstance ended, and whether the process existed then.
Stage(stage, how, pid) == [stage |-> stage, how |-> how, alive |-> pid \in alive]

\* StopInstance returns r: to its caller, or to the loop of StopAllInstances
\* (lines 333-336), which notes the name when r is an error.
StopReturnForget(r) ==
  IF rpc = "stopall"
  THEN /\ spc' = "next"
       /\ failed' = failed
       /\ UNCHANGED <<rpc, rret>>
  ELSE /\ rpc' = "done"
       /\ spc' = "idle"
       /\ rret' = r
       /\ failed' = failed

StopReturn(r) ==
  IF rpc = "stopall"
  THEN /\ spc' = "next"
       /\ failed' = IF r.err # "" THEN Append(failed, rarg') ELSE failed
       /\ UNCHANGED <<rpc, rret>>
  ELSE /\ rpc' = "done"
       /\ spc' = "idle"
       /\ rret' = r
       /\ failed' = failed

\* StopInstance, lines 116-121: load the record; without one, a user error.
StopEnter(name) ==
  /\ rarg' = name
  /\ signals' = <<>>
  /\ termTo' = {}
  /\ stages' = <<>>
  /\ stopped' = FALSE
  /\ LET l == LoadInstance(registry, name) IN
       IF ~l.ok
       THEN /\ StopReturn(Returns("stop", ErrUser("instance not found")))
            /\ inst' = <<>>
       ELSE /\ inst' = <<l.inst>>
            /\ rpc' = IF rpc = "stopall" THEN rpc ELSE "stop"
            /\ spc' = IF l.inst.WsURL # "" THEN "dial" ELSE "term"
            /\ UNCHANGED <<rret, failed>>
  /\ UNCHANGED <<registry, alive, dirs, serving>>

StopCall(name) ==
  /\ rpc \in {"idle", "done"}
  /\ nOps < MaxOps
  /\ nOps' = nOps + 1
  /\ before' = registry
  /\ rmFailed' = {}
  /\ rmAllFailed' = {}
  /\ StopEnter(name)
  /\ todo' = todo
  /\ NoEngine

\* Under way, at step `at`.
Stopping(at) == rpc \in {"stop", "stopall"} /\ spc = at

\* A connection that was just dialed has had no Send, and its peer has seen
\* no request.
FreshCalls ==
  /\ ch' = [c \in Calls |-> [buf |-> <<>>, closed |-> FALSE]]
  /\ pc' = [c \in Calls |-> "idle"]
  /\ id' = [c \in Calls |-> 0]
  /\ arg' = [c \in Calls |-> [method |-> "", params |-> NilRaw, session |-> ""]]
  /\ ctx' = [c \in Calls |-> "active"]
  /\ ret' = [c \in Calls |-> NoRet]
  /\ hist' = [c \in Calls |-> {}]
  /\ wire' = {}
  /\ frame' = NoFrame
  /\ nread' = 0
  /\ evSent' = 0
  /\ arrived' = <<>>
  /\ taken' = <<>>
  /\ nTake' = 0
  /\ nClose' = 0

\* StopInstance, lines 123-126 and 148-150: the context with its timeout,
\* and the dial; a failed dial ends the graceful stage.
StopDial ==
  /\ Stopping("dial")
  /\ panic = "none"
  /\ \E ok \in BOOLEAN :
       IF ok
       THEN /\ Dial(FALSE)
            /\ FreshCalls
            /\ spc' = "close"
            /\ stages' = stages
       ELSE /\ NoEngine
            /\ spc' = "term"
            /\ stages' = Append(stages, Stage("graceful", "dial failed", inst[1].PID))
  /\ panic' = panic
  /\ UNCHANGED <<registry, alive, rpc, rarg, rret, rmFailed, before, nOps,
                 inst, stopped, dirs, serving, signals, termTo, rmAllFailed, todo,
                 failed>>

\* StopInstance, line 128: conn.Send(ctx, "Browser.close", nil, "").
StopSendClose ==
  /\ Stopping("close")
  /\ SendCall(1, "Browser.close", NilRaw, "")
  /\ spc' = "closing"
  /\ UNCHANGED <<registry, alive, rpc, rarg, rret, rmFailed, before, nOps,
                 inst, stopped, dirs, serving, signals, termTo, stages, rmAllFailed,
                 todo, failed>>

\* The 2 s of the context pass while the command is out.
StopDeadline ==
  /\ Stopping("closing")
  /\ CtxCancel("context deadline exceeded")
  /\ EngineOnly

\* StopInstance, lines 129-147: the command returned. Any reply, also one that
\* carries an error object, counts as accepted.
StopCloseReturn ==
  /\ Stopping("closing")
  /\ Returned(1)
  /\ IF ret[1].err = ""
     THEN spc' = "gwait" /\ stages' = stages
     ELSE /\ spc' = "term"
          /\ stages' = Append(stages, Stage("graceful", "command failed", inst[1].PID))
  /\ NoEngine
  /\ UNCHANGED <<registry, alive, rpc, rarg, rret, rmFailed, before, nOps,
                 inst, stopped, dirs, serving, signals, termTo, rmAllFailed, todo,
                 failed>>

\* proc.Wait() in the goroutines of lines 133-136 and 158-161 has returned:
\* for a child when it has exited; for a process that is not a child of this
\* program at once, with an error that is discarded.
WaitReturned(pid) == ~parent \/ pid \notin alive

\* Faulty variant: no timer in the select
WaitCasesNoTimer(returned) == IF returned THEN {"done"} ELSE {}
\* The selects of lines 137-143 and 162-167: `done` once the wait returned,
\* the timer when it has not by then.
WaitCases(returned) == IF returned THEN {"done"} ELSE {"timeout"}

\* StopInstance, lines 130-144: wait for the exit, 3 s at most.
StopGracefulWait ==
  /\ Stopping("gwait")
  /\ \E case \in WaitCases(WaitReturned(inst[1].PID)) :
       /\ stopped' = (case = "done")
       /\ stages' = Append(stages, Stage("graceful", case, inst[1].PID))
  /\ spc' = "term"
  /\ NoEngine
  /\ UNCHANGED <<registry, alive, rpc, rarg, rret, rmFailed, before, nOps,
                 inst, dirs, serving, signals, termTo, rmAllFailed, todo, failed>>

\* Faulty variant: the terminate stage is never entered
TermNeededNever(stop, pid) == FALSE
\* StopInstance, line 152: !stopped && IsProcessAlive(inst.PID)
TermNeeded(stop, pid) == ~stop /\ IsProcessAlive(pid)

\* StopInstance, lines 152-156: the terminate signal, unless stopped is set or
\* the process is gone.
StopTerm ==
  /\ Stopping("term")
  /\ IF TermNeeded(stopped, inst[1].PID)
     THEN /\ signals' = Append(signals, "TERM")
          /\ termTo' = Signal(inst[1].PID)
          /\ spc' = "twait"
          /\ stages' = IF inst[1].WsURL = ""
                       THEN Append(stages, Stage("graceful", "no endpoint", inst[1].PID))
                       ELSE stages
     ELSE /\ signals' = signals
          /\ termTo' = termTo
          /\ spc' = "cleanup"
          /\ stages' = Append(IF inst[1].WsURL = ""
                              THEN Append(stages, Stage("graceful", "no endpoint", inst[1].PID))
                              ELSE stages,
                              Stage("terminate", "skipped", inst[1].PID))
  /\ NoEngine
  /\ UNCHANGED <<registry, alive, rpc, rarg, rret, rmFailed, before, nOps,
                 inst, stopped, dirs, serving, rmAllFailed, todo, failed>>

\* StopInstance, lines 157-167: wait for the exit, 5 s at most, then the kill
\* signal, after which nothing is waited for.
StopTermWait ==
  /\ Stopping("twait")
  /\ \E case \in WaitCases(WaitReturned(inst[1].PID)) :
       /\ stages' = Append(stages, Stage("terminate", case, inst[1].PID))
       /\ IF case = "timeout"
          THEN /\ signals' = Append(signals, "KILL")
               /\ termTo' = termTo
               /\ alive' = Kill(alive, inst[1].PID)
               /\ serving' = Unserve(serving, inst[1].PID)
          ELSE UNCHANGED <<signals, termTo, alive, serving>>
  /\ spc' = "cleanup"
  /\ NoEngine
  /\ UNCHANGED <<registry, rpc, rarg, rret, rmFailed, before, nOps, inst,
                 stopped, dirs, rmAllFailed, todo, failed>>

\* Faulty variant: no directory is taken for a temporary one
HasTempPrefixNever(dir) == FALSE
\* StopInstance, line 170: strings.HasPrefix(inst.UserDataDir, os.TempDir())
HasTempPrefix(dir) == dir.under = TempDir

\* StopInstance, lines 170-176 and the deferred calls of lines 124 and 127:
\* remove the directory if it lies under os.TempDir(), remove the record
\* (both results are discarded), close the connection, return nil.
StopCleanup ==
  /\ Stopping("cleanup")
  /\ LET dir == inst[1].UserDataDir
         temp == dir # NoDir /\ HasTempPrefix(dir)
     IN  \E removed \in BOOLEAN :
           /\ dirs' = Cleanup(dirs, dir, temp, removed)
           /\ rmAllFailed' = rmAllFailed \cup NotRemoved(dir, temp, removed)
  /\ \E removed \in BOOLEAN :
       /\ registry' = IF removed THEN RemoveInstance(registry, rarg) ELSE registry
       /\ rmFailed' = IF removed THEN rmFailed ELSE rmFailed \cup {rarg}
  /\ IF Conn = "open" THEN Close ELSE NoEngine
  /\ rarg' = rarg
  /\ StopReturn(ReturnsNil("stop"))
  /\ UNCHANGED <<alive, before, nOps, inst, stopped, serving, signals, termTo, stages,
                 todo>>

\* The process being stopped exits: on the close command, on the terminate
\* signal, or by itself.
StopExit ==
  /\ rpc \in {"stop", "stopall"}
  /\ spc \in {"dial", "close", "closing", "gwait", "term", "twait"}
  /\ inst[1].PID \in alive
  /\ alive' = alive \ {inst[1].PID}
  /\ serving' = Unserve(serving, inst[1].PID)
  /\ NoEngine
  /\ UNCHANGED <<registry, rpc, rarg, rret, rmFailed, before, nOps, spc, inst,
                 stopped, dirs, signals, termTo, stages, rmAllFailed, todo, failed>>

\* The connection's own steps while StopInstance is under way.
StopConn ==
  \/ SendRun(1)
  \/ PeerReply
  \/ ReadFail /\ EngineOnly

\* ------------------------------------------------------ StopAllInstances
\* StopAllInstances, lines 319-326: read the directory. A missing directory
\* is success, another failure a runtime error.
StopAllStart ==
  /\ rpc \in {"idle", "done"}
  /\ nOps < MaxOps
  /\ nOps' = nOps + 1
  /\ before' = registry
  /\ rmFailed' = {}
  /\ rmAllFailed' = {}
  /\ rarg' = 0
  /\ failed' = <<>>
  /\ \E read \in ReadDirOutcomes :
       /\ read = "missing" => registry = EmptyMap
       /\ CASE read = "ok" ->
                 /\ todo' = ReadDir(registry)
                 /\ rpc' = "stopall" /\ spc' = "next"
                 /\ rret' = NoRRet
            [] read = "missing" ->
                 /\ todo' = <<>>
                 /\ rpc' = "done" /\ spc' = "idle"
                 /\ rret' = ReturnsNil("stopall")
            [] OTHER ->
                 /\ todo' = <<>>
                 /\ rpc' = "done" /\ spc' = "idle"
                 /\ rret' = Returns("stopall", ErrRuntime("reading instances dir"))
  /\ NoEngine
  /\ UNCHANGED <<registry, alive, inst, stopped, dirs, serving, signals, termTo, stages>>

\* StopAllInstances, lines 327-333: the next entry; StopInstance(name).
StopAllNext ==
  /\ Stopping("next") /\ rpc = "stopall"
  /\ todo # <<>>
  /\ todo' = Tail(todo)
  /\ StopEnter(Head(todo))
  /\ NoEngine
  /\ UNCHANGED <<rmFailed, before, nOps, rmAllFailed>>

\* StopAllInstances, lines 338-341: the loop is over.
StopAllReturn ==
  /\ Stopping("next") /\ rpc = "stopall"
  /\ todo = <<>>
  /\ rret' = IF Len(failed) > 0
             THEN Returns("stopall", ErrRuntime("failed to stop instance(s)"))
             ELSE ReturnsNil("stopall")
  /\ rpc' = "done"
  /\ spc' = "idle"
  /\ NoEngine
  /\ UNCHANGED <<registry, alive, rarg, rmFailed, before, nOps, inst, stopped,
                 dirs, serving, signals, termTo, stages, rmAllFailed, todo, failed>>

\* The options StartBrowser is called with.
StartOpts ==
  [Name : {0} \cup Names, Port : {0, DefaultPort, DefaultPort + 200},
   UserDataDir : {NoDir} \cup CallerDirs]

\* Other programs answer on the ports of P.
Others(P) == [q \in P |-> 0]
\* The first k ports from the default one.
FirstPorts(k) == DefaultPort .. (DefaultPort + k - 1)
\* Which ports other programs answer on when StartBrowser is entered: none,
\* the first two, the second only, the first and third, all the ports the
\* loop probes but the last, and all of them.
OccupiedSets ==
  {FirstPorts(0), FirstPorts(2), {DefaultPort + 1},
   {DefaultPort, DefaultPort + 2}, FirstPorts(ProbeCap - 1), FirstPorts(ProbeCap)}

\* Any registry whose recorded processes run, the caller's directories, and
\* other programs on some ports; one operation is still to be made.
InitStart ==
  /\ NotDialed
  /\ NoCalls
  /\ NoOp("")
  /\ \E D \in SUBSET Names : \E bad \in SUBSET D :
       /\ registry = [n \in D |-> Record(n, n \notin bad)]
       /\ alive = {PidOf(n) : n \in D \ bad}
  /\ rpc = "idle"
  /\ rarg = 0
  /\ entries = <<>>
  /\ instances = <<>>
  /\ cleanupErrs = 0
  /\ rret = NoRRet
  /\ rmFailed = {}
  /\ before = registry
  /\ nOps = MaxOps - 1
  /\ spc = "idle"
  /\ opts = NoOpts
  /\ userDataDir = NoDir
  /\ tempDir = FALSE
  /\ port = 0
  /\ probes = 0
  /\ proc = 0
  /\ wsURL = ""
  /\ inst = <<>>
  /\ stopped = FALSE
  /\ parent = FALSE
  /\ dirs = CallerDirs
  /\ \E P \in OccupiedSets : serving = Others(P)
  /\ signals = <<>>
  /\ stages = <<>>
  /\ freeProbed = {}
  /\ supplied = {}
  /\ rmAllFailed = {}
  /\ todo = <<>>
  /\ failed = <<>>
  /\ pgrp = [p \in alive |-> p]
  /\ termTo = {}
  /\ other = NoOther

NextStart ==
  \/ (\E o \in StartOpts : StartCall(o)) /\ StartOnly
  \/ StartProbe /\ StartOnly
  \/ StartLaunch /\ StartOnly
  \/ StartWait /\ StartOnly
  \/ StartWsURL /\ StartOnly
  \/ StartSave /\ StartOnly
  \/ BrowserReady /\ StartOnly
  \/ BrowserCrash /\ StartOnly
  \/ OtherBinds /\ StartOnly
  \/ BrowserForks /\ StartOnly

SpecStart == InitStart /\ [][NextStart]_vars

\* The records the registry may hold for the first name when StopInstance is
\* entered: with or without an endpoint, with no directory, a caller's
\* directory, or one StartBrowser made.
StopRecords ==
  {Instance(1, PidOf(1), DefaultPort, ws, dir) :
     ws \in {"", WsOf(DefaultPort, PidOf(1))},
     dir \in {NoDir, MkdirTemp(1, 0)} \cup CallerDirs}

\* A registry with any record (or an unreadable file, or nothing) under the
\* first name and plain records under others; any of the recorded processes
\* run; one operation is still to be made.
InitStop ==
  /\ NotDialed
  /\ NoCalls
  /\ NoOp("")
  /\ \E D \in SUBSET (Names \ {1}), first \in {<<>>, <<Record(1, FALSE)>>} \cup {<<r>> : r \in StopRecords} :
       registry = [n \in D \cup (IF first = <<>> THEN {} ELSE {1}) |->
                     IF n = 1 THEN first[1] ELSE Record(n, TRUE)]
  /\ alive \in SUBSET {registry[n].PID : n \in {m \in DOMAIN registry : registry[m].valid}}
  /\ rpc = "idle"
  /\ rarg = 0
  /\ entries = <<>>
  /\ instances = <<>>
  /\ cleanupErrs = 0
  /\ rret = NoRRet
  /\ rmFailed = {}
  /\ before = registry
  /\ nOps = MaxOps - 1
  /\ spc = "idle"
  /\ opts = NoOpts
  /\ userDataDir = NoDir
  /\ tempDir = FALSE
  /\ port = 0
  /\ probes = 0
  /\ proc = 0
  /\ wsURL = ""
  /\ inst = <<>>
  /\ stopped = FALSE
  /\ parent \in BOOLEAN
  /\ dirs = CallerDirs \cup {MkdirTemp(1, 0)}
  /\ serving = [q \in {registry[n].Port : n \in {m \in DOMAIN registry :
                         registry[m].valid /\ registry[m].PID \in alive /\ registry[m].Port # 0}}
                  |-> PidOf(1)]
  /\ signals = <<>>
  /\ stages = <<>>
  /\ freeProbed = {}
  /\ supplied = CallerDirs
  /\ rmAllFailed = {}
  /\ todo = <<>>
  /\ failed = <<>>
  /\ pgrp = [p \in alive |-> p]
  /\ termTo = {}
  /\ other = NoOther

NextStop ==
  \/ (\E name \in Names : StopCall(name)) /\ StopOnly
  \/ StopDial /\ StopOnly
  \/ StopSendClose /\ StopOnly
  \/ StopDeadline
  \/ StopCloseReturn /\ StopOnly
  \/ StopGracefulWait /\ StopOnly
  \/ StopTerm /\ StopOnly
  \/ StopTermWait /\ StopOnly
  \/ StopCleanup /\ StopOnly
  \/ StopExit /\ StopOnly
  \/ StopConn

SpecStop == InitStop /\ [][NextStop]_vars

\* StopInstance's own steps and the timers are taken when they can be: the
\* goroutine runs and time passes.
SpecStopFair ==
  /\ SpecStop
  /\ WF_vars(StopDial /\ StopOnly)
  /\ WF_vars(StopSendClose /\ StopOnly)
  /\ WF_vars(SendRun(1))
  /\ WF_vars(StopDeadline)
  /\ WF_vars(StopCloseReturn /\ StopOnly)
  /\ WF_vars(StopGracefulWait /\ StopOnly)
  /\ WF_vars(StopTerm /\ StopOnly)
  /\ WF_vars(StopTermWait /\ StopOnly)
  /\ WF_vars(StopCleanup /\ StopOnly)

\* Any instances directory for StopAllInstances: records of some names, some
\* of them unreadable, the first one with or without an endpoint and a
\* directory StartBrowser made; any of the recorded processes run; one
\* operation is still to be made.
InitStopAll ==
  /\ NotDialed
  /\ NoCalls
  /\ NoOp("")
  /\ \E D \in SUBSET Names : \E bad \in SUBSET D, ws \in BOOLEAN :
       registry = [n \in D |->
                     IF n = 1 /\ n \notin bad /\ ws
                     THEN Instance(1, PidOf(1), DefaultPort,
                                   WsOf(DefaultPort, PidOf(1)), MkdirTemp(1, 0))
                     ELSE Record(n, n \notin bad)]
  /\ alive \in SUBSET {registry[n].PID : n \in {m \in DOMAIN registry : registry[m].valid}}
  /\ rpc = "idle"
  /\ rarg = 0
  /\ entries = <<>>
  /\ instances = <<>>
  /\ cleanupErrs = 0
  /\ rret = NoRRet
  /\ rmFailed = {}
  /\ before = registry
  /\ nOps = MaxOps - 1
  /\ spc = "idle"
  /\ opts = NoOpts
  /\ userDataDir = NoDir
  /\ tempDir = FALSE
  /\ port = 0
  /\ probes = 0
  /\ proc = 0
  /\ wsURL = ""
  /\ inst = <<>>
  /\ stopped = FALSE
  /\ parent \in BOOLEAN
  /\ dirs = CallerDirs \cup {MkdirTemp(1, 0)}
  /\ serving = [q \in {registry[n].Port : n \in {m \in DOMAIN registry :
                         registry[m].valid /\ registry[m].PID \in alive /\ registry[m].Port # 0}}
                  |-> PidOf(1)]
  /\ signals = <<>>
  /\ stages = <<>>
  /\ freeProbed = {}
  /\ supplied = CallerDirs
  /\ rmAllFailed = {}
  /\ todo = <<>>
  /\ failed = <<>>
  /\ pgrp = [p \in alive |-> p]
  /\ termTo = {}
  /\ other = NoOther

NextStopAll ==
  \/ StopAllStart /\ StopOnly
  \/ StopAllNext /\ StopOnly
  \/ StopAllReturn /\ StopOnly
  \/ StopDial /\ StopOnly
  \/ StopSendClose /\ StopOnly
  \/ StopDeadline
  \/ StopCloseReturn /\ StopOnly
  \/ StopGracefulWait /\ StopOnly
  \/ StopTerm /\ StopOnly
  \/ StopTermWait /\ StopOnly
  \/ StopCleanup /\ StopOnly
  \/ StopExit /\ StopOnly
  \/ StopConn

SpecStopAll == InitStopAll /\ [][NextStopAll]_vars

\* ------------------------------------------------- all operations together
\* The options of the calls of StartBrowser when the operations are mixed.
SupOpts ==
  [Name : {1, 2}, Port : {0}, UserDataDir : {NoDir} \cup CallerDirs]

\* A browser this supervisor started exits, between two operations.
ProcessGone ==
  /\ rpc \in {"idle", "done"}
  /\ \E p \in alive :
       /\ alive' = alive \ {p}
       /\ serving' = Unserve(serving, p)
  /\ rpc' = "idle"
  /\ UNCHANGED <<registry, rarg, entries, instances, cleanupErrs, rret,
                 rmFailed, before, nOps>>
  /\ UNCHANGED <<spc, opts, userDataDir, tempDir, port, probes, proc, pgrp, wsURL,
                 inst, stopped, parent, dirs, signals, termTo, stages, freeProbed,
                 supplied, rmAllFailed, todo, failed, other>>
  /\ NoEngine
  /\ UNCHANGED opVars

\* No browser runs; the instances directory is empty or holds one unreadable
\* file; the operations are the calls of one program (parent) or one program
\* each.
InitSupervisor ==
  /\ NotDialed
  /\ NoCalls
  /\ NoOp("")
  /\ registry \in {EmptyMap, [n \in {1} |-> Record(n, FALSE)]}
  /\ alive = {}
  /\ rpc = "idle"
  /\ rarg = 0
  /\ entries = <<>>
  /\ instances = <<>>
  /\ cleanupErrs = 0
  /\ rret = NoRRet
  /\ rmFailed = {}
  /\ before = registry
  /\ nOps = 0
  /\ spc = "idle"
  /\ opts = NoOpts
  /\ userDataDir = NoDir
  /\ tempDir = FALSE
  /\ port = 0
  /\ probes = 0
  /\ proc = 0
  /\ wsURL = ""
  /\ inst = <<>>
  /\ stopped = FALSE
  /\ parent \in BOOLEAN
  /\ dirs = CallerDirs
  /\ serving = Others(FirstPorts(0))
  /\ signals = <<>>
  /\ stages = <<>>
  /\ freeProbed = {}
  /\ supplied = {}
  /\ rmAllFailed = {}
  /\ todo = <<>>
  /\ failed = <<>>
  /\ pgrp = [p \in alive |-> p]
  /\ termTo = {}
  /\ other = NoOther

NextSupervisor ==
  \/ (\E o \in SupOpts : StartCall(o)) /\ StartOnly
  \/ StartProbe /\ StartOnly
  \/ StartLaunch /\ StartOnly
  \/ StartWait /\ StartOnly
  \/ StartWsURL /\ StartOnly
  \/ StartSave /\ StartOnly
  \/ BrowserReady /\ StartOnly
  \/ BrowserCrash /\ StartOnly
  \/ BrowserForks /\ StartOnly
  \/ (\E name \in Names : StopCall(name)) /\ StopOnly
  \/ StopAllStart /\ StopOnly
  \/ StopAllNext /\ StopOnly
  \/ StopAllReturn /\ StopOnly
  \/ StopDial /\ StopOnly
  \/ StopSendClose /\ StopOnly
  \/ StopDeadline
  \/ StopCloseReturn /\ StopOnly
  \/ StopGracefulWait /\ StopOnly
  \/ StopTerm /\ StopOnly
  \/ StopTermWait /\ StopOnly
  \/ StopCleanup /\ StopOnly
  \/ StopExit /\ StopOnly
  \/ StopConn
  \/ ListStart /\ RegistryOnly
  \/ ListScan /\ RegistryOnly
  \/ ListReturn /\ RegistryOnly
  \/ (\E name \in Names : ResolveNamed(name)) /\ RegistryOnly
  \/ FindStart /\ RegistryOnly
  \/ FindScan /\ RegistryOnly
  \/ FindNone /\ RegistryOnly
  \/ ProcessGone

SpecSupervisor == InitSupervisor /\ [][NextSupervisor]_vars

\* --------------------------------------------- two calls of StartBrowser
\* The local state of the call of StartBrowser that is running.
Running ==
  [rpc |-> rpc, rarg |-> rarg, rret |-> rret, before |-> before, spc |-> spc,
   opts |-> opts, userDataDir |-> userDataDir, tempDir |-> tempDir,
   port |-> port, probes |-> probes, proc |-> proc, wsURL |-> wsURL,
   rmAllFailed |-> rmAllFailed]

\* The scheduler suspends the call that runs, between two of its steps or
\* after its return, and goes on with the other call. The calls share the
\* instances directory, the processes, the ports and the directories.
Yield ==
  /\ rpc \in {"start", "done"}
  /\ other' = Running
  /\ rpc' = other.rpc
  /\ rarg' = other.rarg
  /\ rret' = other.rret
  /\ before' = other.before
  /\ spc' = other.spc
  /\ opts' = other.opts
  /\ userDataDir' = other.userDataDir
  /\ tempDir' = other.tempDir
  /\ port' = other.port
  /\ probes' = other.probes
  /\ proc' = other.proc
  /\ wsURL' = other.wsURL
  /\ rmAllFailed' = other.rmAllFailed
  /\ UNCHANGED <<registry, alive, entries, instances, cleanupErrs, rmFailed,
                 nOps, inst, stopped, parent, dirs, serving, signals, termTo,
                 stages, freeProbed, supplied, todo, failed, pgrp>>
  /\ NoEngine
  /\ UNCHANGED opVars

\* The options of the two calls: the same name, with or without a port.
RaceOpts ==
  [Name : {1}, Port : {0, DefaultPort + 200}, UserDataDir : {NoDir}]

\* No browser runs and the instances directory is empty; two calls of
\* StartBrowser are to be made.
InitRace ==
  /\ InitSupervisor
  /\ registry = EmptyMap
  /\ ~parent

NextRace ==
  \/ (\E o \in RaceOpts : StartCall(o)) /\ StartOnly
  \/ StartProbe /\ StartOnly
  \/ StartLaunch /\ StartOnly
  \/ StartWait /\ StartOnly
  \/ StartWsURL /\ StartOnly
  \/ StartSave /\ StartOnly
  \/ BrowserReady /\ StartOnly
  \/ BrowserCrash /\ StartOnly
  \/ Yield

SpecRace == InitRace /\ [][NextRace]_vars

\* ================================================================ claims
\* C1: every Send that returns a response returns the message whose id is the
\* id it allocated, and no message with another id is ever put into a Send's
\* slot, whatever the order of the replies.
C1_OwnResponse ==
  \A c \in Calls :
    /\ GotResponse(c) => ret[c].resp[1].ID = id[c]
    /\ \A k \in 1..Len(ch[c].buf) : ch[c].buf[k].ID = id[c]

\* C1 witness: the second Send has its response while the first one, issued
\* before it, still waits (the replies arrive out of order).
C1_Witness ==
  /\ MaxCalls >= 2
  /\ GotResponse(2) /\ ret[2].resp[1].ID = id[2]
  /\ pc[1] = "parked"

\* C2: ids allocated on one connection are pairwise distinct, grow strictly
\* in allocation order and are never 0, so a reply is never taken for an event.
C2_UniqueIds ==
  \A c \in Calls :
    Allocated(c) =>
      /\ id[c] # 0
      /\ id[c] > FirstID
      /\ Classify(EchoReply(Request(c)).obj, TRUE) = "response"
      /\ \A b \in Calls : (Allocated(b) /\ b < c) => id[b] < id[c]

\* C2 witness: every Send has allocated, some of them still in flight together.
C2_Witness ==
  /\ \A c \in Calls : Allocated(c)
  /\ \E c \in Calls : pc[c] = "lock"
  /\ NextID = FirstID + MaxCalls

\* What a Send can still do by itself once it is under way.
SendCanStep(c) ==
  ENABLED (SendRegister(c) \/ SendWrite(c) \/ SendWriteFailed(c)
             \/ SendSelect(c) \/ SendCtxDone(c))

C3_CtxWins ==
  \A c \in Calls :
    (Returned(c) /\ "ctxWhileParked" \in hist[c]) =>
      /\ ctx[c] \in CtxErrors
      /\ ret[c] = [resp |-> <<>>, err |-> ctx[c]]
      /\ ~HasSlot(Pending, id[c])

C3_LateReplyStep ==
  \A c \in Calls :
    (/\ Returned(c) /\ ret[c].err \in CtxErrors
     /\ nread' = nread + 1 /\ frame'.wf /\ frame'.obj.ID = id[c])
    => /\ UNCHANGED <<Pending, ch, pc, ret, Events, Closed>>
       /\ panic' = "none" /\ reader' = "running" /\ Mu' = "free"

\* C3 (amended): a Send whose context completes while it is blocked in its
\* wait returns the context's error with its slot removed, and a reply with
\* its id read after a Send returned the context's error changes nothing:
\* no slot, no caller, no panic, and the reader goes on.
C3_CancelledSend == []C3_CtxWins /\ [][C3_LateReplyStep]_vars

\* C3 witness: a Send was cancelled while parked, returned the context's
\* error, and a reply with its id was read after that.
C3_Witness ==
  \E c \in Calls :
    /\ Returned(c) /\ ret[c].err \in CtxErrors
    /\ ParkedThenLate \subseteq hist[c]

\* C3 as stated: the context completed before a reply for the id was
\* delivered (here also: the request was written and the connection is up),
\* so Send returns the context's error and its slot is gone.
C3_Original ==
  \A c \in Calls :
    (Returned(c) /\ WroteThenCtx \subseteq hist[c] /\ ~Closed) =>
      /\ ret[c] = [resp |-> <<>>, err |-> ctx[c]]
      /\ ~HasSlot(Pending, id[c])

\* C4: after a failed read the connection is marked closed, the pending table
\* is nil with every slot that was in it closed, the event queue is closed, a
\* Send that was parked on its slot has returned "connection closed", and no
\* Send is left blocked: none is parked and each unfinished one can step.
C4_Teardown ==
  reader = "exited" =>
    /\ Closed /\ Pending.isNil
    /\ Events.isNil \/ Events.closed
    /\ \A c \in Calls :
         /\ pc[c] # "parked"
         /\ "closedWhileParked" \in hist[c] =>
              (Returned(c) /\ ret[c] = [resp |-> <<>>, err |-> "connection closed"])
         /\ ("registered" \in hist[c] /\ ~Returned(c) /\ Len(ch[c].buf) = 0)
              => ch[c].closed
         /\ (Allocated(c) /\ ~Returned(c)) => SendCanStep(c)

\* C4 witness: the reader tore down a connection with an event queue while a
\* Send was parked on its slot.
C4_Witness ==
  /\ reader = "exited" /\ ~Events.isNil /\ Events.closed
  /\ \E c \in Calls : "closedWhileParked" \in hist[c] /\ Returned(c)

\* C5: with Close() called repeatedly, around a read failure and in-flight
\* Sends, nothing panics (no channel is closed twice, nothing is sent on a
\* closed channel) and nothing deadlocks: the reader never blocks holding the
\* lock and every unfinished Send is parked with the reader alive or can step.
C5_CloseSafe ==
  /\ panic = "none"
  /\ reader # "blocked" /\ Mu = "free"
  /\ \A c \in Calls :
       (Allocated(c) /\ ~Returned(c)) =>
         IF pc[c] = "parked" THEN reader = "running" /\ ENABLED ReadFail
         ELSE SendCanStep(c)

\* C5 witness: Close() ran twice, the reader tore down, a Send was in flight
\* and an event queue existed.
C5_Witness ==
  /\ nClose >= 2 /\ reader = "exited" /\ ~Events.isNil /\ Events.closed
  /\ \E c \in Calls : Allocated(c) /\ ~Returned(c) /\ ch[c].closed

EventNo ==
  [p \in {ToString(n) : n \in 1..FloodEvents} |->
     CHOOSE n \in 1..FloodEvents : ToString(n) = p]
\* s holds arrived events, in the order of their arrival, none twice.
InArrivalOrder(s) ==
  \A k \in 1..Len(s) :
    LET n == EventNo[s[k].Params] IN
      /\ n <= Len(arrived) /\ arrived[n] = s[k]
      /\ k > 1 => EventNo[s[k - 1].Params] < n
Min(a, b) == IF a < b THEN a ELSE b

\* C7: the event queue never holds more than 100 events, the reader never
\* blocks on it, the events taken and the events queued are, in this order,
\* arrived events in arrival order, and with no consumer the queue holds the
\* first 100 arrivals (so of 150 the last 50 are lost).
C7_EventQueue ==
  /\ Len(Events.q) <= EventCap
  /\ reader # "blocked" /\ Mu = "free" /\ panic = "none"
  /\ InArrivalOrder(taken \o Events.q)
  /\ nTake = 0 => Events.q = SubSeq(arrived, 1, Min(Len(arrived), EventCap))

\* C7 witness: 150 events arrived with no consumer; 100 are queued.
C7_Witness ==
  /\ Len(arrived) = 150 /\ nTake = 0 /\ reader = "running"
  /\ Len(Events.q) = 100
  /\ Events.q[100] = arrived[100]

\* C8: once a Send has returned, by whatever path, the pending table holds
\* no slot for its id; every slot in the table belongs to an unfinished Send
\* and is registered under that Send's id.
C8_NoSlotLeft ==
  /\ \A c \in Calls : Returned(c) => ~HasSlot(Pending, id[c])
  /\ ~Pending.isNil =>
       \A i \in DOMAIN Pending.slots :
         ~Returned(SlotOf(Pending, i)) /\ id[SlotOf(Pending, i)] = i

\* C8 witness: one Send returned after a write failure and another one after
\* its context completed, with the connection still up.
C8_Witness ==
  /\ ~Pending.isNil
  /\ \E c \in Calls : Returned(c) /\ ret[c].err = "write error"
  /\ \E c \in Calls : Returned(c) /\ ret[c].err \in CtxErrors

C10_Outcomes ==
  \A c \in Calls :
    Returned(c) =>
      /\ (ret[c].resp # <<>>) # (ret[c].err # "")
      /\ ret[c].err = "connection closed" => Closed /\ Pending.isNil
      /\ ret[c].err \in CtxErrors => ctx[c] = ret[c].err
      /\ ret[c].err \in CtxErrors \cup
           {"", "connection closed", "write error", "marshal error"}

\* C10 witness: one Send got a reply that carries an error object, another
\* one got "connection closed".
C10_Witness ==
  /\ \E c \in Calls :
       GotResponse(c) /\ ret[c].resp[1].Error # NoError /\ ret[c].err = ""
  /\ \E c \in Calls : Returned(c) /\ ret[c].err = "connection closed"

\* The step is the reader handling a frame that decoded.
ReadsDecoded == nread' = nread + 1 /\ frame'.wf
\* The pending table after the step is the table before it, less at most id i.
OnlySlotOf(i) ==
  /\ Pending'.isNil = Pending.isNil
  /\ DOMAIN Pending'.slots \subseteq DOMAIN Pending.slots
  /\ DOMAIN Pending.slots \ DOMAIN Pending'.slots \subseteq {i}
  /\ \A c \in Calls : id[c] # i => (ch'[c] = ch[c] /\ ret'[c] = ret[c] /\ pc'[c] = pc[c])

C11_Step ==
  ReadsDecoded =>
    LET m == frame'.obj IN
      /\ m.ID # 0 =>
           /\ Events' = Events /\ arrived' = arrived
           /\ OnlySlotOf(m.ID)
           /\ HasSlot(Pending, m.ID) => ~HasSlot(Pending', m.ID)
      /\ (m.ID = 0 /\ m.Method # "") =>
           /\ UNCHANGED <<Pending, ch, pc, ret>>
           /\ Events' # Events => (~Events.isNil /\ ~Closed)
           /\ (~Events.isNil /\ ~Closed /\ Len(Events.q) < EventCap)
                => Events'.q = Append(Events.q, m)
      /\ (m.ID = 0 /\ m.Method = "") =>
           UNCHANGED <<Pending, Events, ch, pc, ret, arrived>>

\* C11: the reader handles a decoded frame in exactly one way: a frame with
\* an id only reaches the pending slot of that id and never the event queue,
\* also when it carries a method; a frame with no id and a method is enqueued
\* only when events are captured and the connection is not closed, and touches
\* no slot; a frame with no id and no method changes nothing.
C11_OneWay == [][C11_Step]_vars

\* C11 witness: on a connection that captures events a frame with an id and a
\* method was read and delivered to the Send of that id, the queue left empty.
C11_Witness ==
  /\ frame.wf /\ frame.obj.ID # 0 /\ frame.obj.Method # ""
  /\ ~Events.isNil /\ Events.q = <<>> /\ arrived = <<>>
  /\ \E c \in Calls : GotResponse(c) /\ ret[c].resp[1] = frame.obj

\* C12: a response that Send returns to its caller carries at most one of
\* result and error, whatever frames the peer sends.
C12_Exclusive ==
  \A c \in Calls :
    GotResponse(c) =>
      ~(ret[c].resp[1].Result # NilRaw /\ ret[c].resp[1].Error # NoError)

\* The Sends the operation made, by method.
AttachCalls  == {c \in Calls : Allocated(c) /\ arg[c].method = "Target.attachToTarget"}
CommandCalls == {c \in Calls : Allocated(c) /\ arg[c].method = "m"}

\* C13: the dispatcher dials, attaches exactly when target is neither empty
\* nor "browser" (and then first, with the target id and no session), issues
\* at most one command and exactly one on the paths that got that far, with
\* the session id the attach returned (empty without attach); after a failed
\* dial or attach no command was issued; and it has closed the connection it
\* dialed on every return.
C13_Sequence ==
  /\ \A c \in AttachCalls :
       /\ c = 1 /\ target # "" /\ target # "browser"
       /\ arg[c].params = AttachParams(target) /\ arg[c].session = ""
  /\ \A c \in CommandCalls :
       IF target # "" /\ target # "browser"
       THEN /\ c = 2 /\ AttachCalls = {1} /\ GotResponse(1)
            /\ ret[1].resp[1].Error = NoError
            /\ ret[1].resp[1].Result \in {SessionResult, "null"}
            /\ arg[c].session =
                 (IF ret[1].resp[1].Result = SessionResult THEN "S1" ELSE "")
       ELSE c = 1 /\ arg[c].session = ""
  /\ opRet.via \in {"dial", "attach"} => CommandCalls = {}
  /\ opRet.via \in {"call", "reply"} => Cardinality(CommandCalls) = 1
  /\ opc = "done" =>
       /\ opRet.via \in {"dial", "attach", "call", "reply"}
       /\ opRet.via # "dial" => Conn = "closed" /\ nClose = 1
       /\ opRet.via = "dial" => (Conn = "none" /\ \A c \in Calls : ~Allocated(c))
       /\ (opRet.via # "dial" /\ target # "" /\ target # "browser")
            => AttachCalls = {1}

\* C13 witness: a dispatch to a target attached, sent its command with the
\* session id of the attach reply, got the reply and closed the connection.
C13_Witness ==
  /\ opc = "done" /\ target = "T1" /\ opRet.via = "reply" /\ Conn = "closed"
  /\ AttachCalls = {1} /\ CommandCalls = {2} /\ arg[2].session = "S1"
  /\ "wrote" \in hist[2]

EnableCalls == {c \in Calls : Allocated(c) /\ arg[c].method = "D.enable"}
Delivered   == received \o eventCh

\* C15: when the reply to <domain>.enable carries an error object Listen
\* takes and delivers no event and returns a failure; and whenever Listen has
\* taken or delivered an event, its enable call had returned a reply with no
\* error object.
C15_EnableFirst ==
  /\ \A c \in EnableCalls :
       (GotResponse(c) /\ ret[c].resp[1].Error # NoError) =>
         /\ Delivered = <<>> /\ event = <<>> /\ taken = <<>>
         /\ opc \in {"calling", "return", "done"}
         /\ opc \in {"return", "done"} =>
              (opRet.err # "" /\ opRet.class = "user" /\ opRet.via = "protocol")
  /\ (Delivered # <<>> \/ event # <<>> \/ taken # <<>>) =>
       \E c \in EnableCalls :
         GotResponse(c) /\ ret[c].err = "" /\ ret[c].resp[1].Error = NoError

\* C15 witness: events were queued on the connection, the enable reply
\* carried an error object, and Listen returned its failure with nothing
\* delivered.
C15_Witness ==
  /\ opc = "done" /\ opRet.via = "protocol" /\ opRet.err # ""
  /\ Len(Events.q) >= 2 /\ Delivered = <<>>

\* C16: the events on the output channel (received or still buffered),
\* followed by the one Listen holds, are exactly the events Listen took from
\* the queue, in that order; a Listen that returned because the queue was
\* closed left no event in the queue and holds none; and one that returned
\* with an event queued or in its hands returned on its cancelled context.
C16_Relay ==
  /\ taken = Delivered \o event
  /\ Len(eventCh) <= OutCap
  /\ (opc \in {"return", "done"} /\ opRet.via = "closed") =>
       (Events.closed /\ Events.q = <<>> /\ event = <<>>)
  /\ (opc \in {"return", "done"} /\ opRet.via \in {"ctx", "closed"}
        /\ (Events.q # <<>> \/ event # <<>>)) =>
       (opRet.via = "ctx" /\ Ctx # "active")

\* C16 witness: Listen holds an event before a full output channel, with the
\* context active, after the reader closed the queue with an event left in it.
C16_Witness ==
  /\ opc = "offer" /\ event # <<>> /\ Len(eventCh) = OutCap /\ Ctx = "active"
  /\ Events.closed /\ Len(Events.q) >= 1

C17_NoError ==
  /\ (opc \in {"return", "done"} /\ opRet.via \in {"ctx", "closed"}) =>
       (opRet.err = "" /\ opRet.class = "")
  /\ (opc = "done" /\ opRet.via # "dial") => Conn = "closed"

\* C17: a relaying Listen returns no error on a cancelled context and on a
\* closed queue, has closed its connection when it has returned, and once
\* the context is cancelled or the queue closed it does return, also from
\* before a full output channel.
C17_Returns ==
  /\ []C17_NoError
  /\ (opc \in {"relay", "offer"} /\ (Ctx # "active" \/ Events.closed))
       ~> (opc = "done" /\ opRet.err = "" /\ Conn = "closed")

\* C17 witness: Listen returned on its cancelled context while it held an
\* event before a full output channel that nobody reads any more.
C17_Witness ==
  /\ opc = "done" /\ opRet.via = "ctx" /\ opRet.err = "" /\ Conn = "closed"
  /\ event # <<>> /\ Len(eventCh) = OutCap /\ consumer = "stopped"

\* The readable records of reg whose process is alive, and those whose
\* process is dead.
LiveNames(reg) == {n \in DOMAIN reg : reg[n].valid /\ reg[n].PID \in alive}
DeadNames(reg) == {n \in DOMAIN reg : reg[n].valid /\ reg[n].PID \notin alive}
\* ListInstances has returned its listing.
ListDone == rpc = "done" /\ rret.op = "list" /\ rret.err = ""
\* The listing holds the records that were live on entry, each once.
ReturnsLive ==
  /\ {rret.insts[i] : i \in 1..Len(rret.insts)} = {before[n] : n \in LiveNames(before)}
  /\ Len(rret.insts) = Cardinality(LiveNames(before))
\* No record other than a dead one was touched, and none was added.
OthersKept ==
  /\ DOMAIN registry \subseteq DOMAIN before
  /\ \A n \in DOMAIN before \ DeadNames(before) :
       n \in DOMAIN registry /\ registry[n] = before[n]

\* C18 (amended): ListInstances returns exactly the records whose process is
\* alive, leaves every record other than a dead one unchanged, and has
\* removed every record of a dead process except those whose removal failed.
C18_ListLive ==
  ListDone =>
    /\ ReturnsLive
    /\ OthersKept
    /\ \A n \in DeadNames(before) : n \in DOMAIN registry <=> n \in rmFailed

\* C18 witness: of 3 records 1 was dead; 2 are returned, the dead one is gone.
C18_Witness ==
  /\ ListDone /\ rmFailed = {}
  /\ Cardinality(DOMAIN before) = 3 /\ Cardinality(DeadNames(before)) = 1
  /\ Len(rret.insts) = 2 /\ Cardinality(DOMAIN registry) = 2
  /\ DeadNames(before) \cap DOMAIN registry = {}

\* C18 as stated: after the listing every record of a dead process is gone.
C18_Original ==
  ListDone =>
    /\ ReturnsLive
    /\ OthersKept
    /\ \A n \in DeadNames(before) : n \notin DOMAIN registry

\* C19: a failed removal does not end the listing: ListInstances returns an
\* error only when the directory could not be read, and its listing holds
\* every live record, has every other dead record removed, and carries as its
\* count the number of dead records whose removal failed.
C19_CleanupCount ==
  /\ (rpc = "done" /\ rret.op = "list" /\ rret.err # "") =>
       (rmFailed = {} /\ registry = before /\ rret.class = "runtime")
  /\ ListDone =>
       /\ entries = <<>>
       /\ ReturnsLive
       /\ rret.count = Cardinality(rmFailed)
       /\ rmFailed = DeadNames(before) \cap DOMAIN registry

\* C19 witness: the removal of a dead record failed; a live record listed
\* after it is returned and a dead one listed after it is removed.
C19_Witness ==
  /\ ListDone /\ rret.count >= 1
  /\ \E f \in rmFailed :
       /\ \E n \in LiveNames(before) :
            n > f /\ \E i \in 1..Len(rret.insts) : rret.insts[i] = before[n]
       /\ \E d \in DeadNames(before) : d > f /\ d \notin DOMAIN registry

\* ResolveInstance(name) has returned.
ResolveDone == rpc = "done" /\ rret.op = "resolve"
ResolveFailed == rret.err # "" /\ rret.class = "user" /\ rret.insts = <<>>

\* C20 (amended): ResolveInstance(name), name not empty: with no (readable)
\* record it fails with a user error and changes nothing; with a record
\* whose process is dead it fails with a user error and the record is
\* removed, unless the removal fails, which leaves the registry as it was;
\* with a live process it returns the stored record and changes nothing.
C20_Resolve ==
  ResolveDone =>
    IF rarg \notin DOMAIN before \/ ~before[rarg].valid
    THEN ResolveFailed /\ registry = before
    ELSE IF before[rarg].PID \notin alive
    THEN /\ ResolveFailed
         /\ OthersKept
         /\ IF rarg \in rmFailed THEN registry = before
            ELSE rarg \notin DOMAIN registry
    ELSE /\ rret.insts = <<before[rarg]>> /\ rret.err = ""
         /\ registry = before

\* C20 witness: the record resolved was of a dead process; it is removed and
\* the other records are still there.
C20_Witness ==
  /\ ResolveDone /\ ResolveFailed
  /\ rarg \in DeadNames(before) /\ rarg \notin DOMAIN registry
  /\ Cardinality(DOMAIN registry) >= 2

\* C20 as stated: after resolving a record whose process is dead the record
\* is removed.
C20_Original ==
  (ResolveDone /\ rarg \in DeadNames(before)) =>
    (ResolveFailed /\ rarg \notin DOMAIN registry)

\* FindFirstInstance has returned after reading the directory.
FindDone == rpc = "done" /\ rret.op = "find" /\ rret.err # "no instances found"
\* The names of the entries the scan visited.
Scanned == DOMAIN before \ {entries[i] : i \in 1..Len(entries)}
\* The first live record in enumeration order is the one returned, the scan
\* stopped at it, and with no live record the scan visited every entry and
\* failed with a user error.
FindsFirstLive ==
  IF LiveNames(before) = {}
  THEN ResolveFailed /\ Scanned = DOMAIN before
  ELSE \E n \in LiveNames(before) :
         /\ \A m \in LiveNames(before) : n <= m
         /\ rret.insts = <<before[n]>> /\ rret.err = ""
         /\ Scanned = {m \in DOMAIN before : m <= n}

StartRunning == rpc = "start"
StartDone    == rpc = "done" /\ rret.op = "start"
\* The name StartBrowser was given had a record that loads.
NameWasRegistered ==
  opts.Name \in DOMAIN before /\ before[opts.Name].valid

\* C22: StartBrowser with a name that has a registry record returns a user
\* error and has done nothing: no directory made, no port probed, no process
\* launched, the registry as it was.
C22_NameTaken ==
  ((StartRunning \/ StartDone) /\ NameWasRegistered) =>
    /\ StartDone
    /\ rret.err # "" /\ rret.class = "user" /\ rret.insts = <<>>
    /\ dirs = CallerDirs
    /\ probes = 0 /\ freeProbed = {}
    /\ proc = 0 /\ alive = {before[n].PID : n \in {m \in DOMAIN before : before[m].valid}}
    /\ registry = before

\* C22 witness: a call that asked for an automatic directory and port was
\* refused because its name is registered.
C22_Witness ==
  /\ StartDone /\ NameWasRegistered
  /\ rret.err = "instance already exists"
  /\ opts.Port = 0 /\ opts.UserDataDir = NoDir

\* The ports other programs answer on.
Foreign == {q \in DOMAIN serving : serving[q] = 0}
\* StartBrowser has launched the browser.
Launched == (StartRunning \/ StartDone) /\ proc # 0

\* C23: with no port supplied the browser is launched on the first port from
\* 9222 that did not answer, after at most 100 probes, and that port was
\* probed and found not answering; with a port supplied it is launched on
\* that port and nothing was probed.
C23_Port ==
  /\ probes <= ProbeCap
  /\ Launched =>
       IF opts.Port = 0
       THEN /\ port \in freeProbed
            /\ port \notin Foreign
            /\ \A q \in DefaultPort..(port - 1) : q \in Foreign
       ELSE port = opts.Port /\ probes = 0 /\ freeProbed = {}

GracefulEnd  == IF Len(stages) >= 1 THEN stages[1] ELSE Stage("graceful", "", 0)
TerminateEnd == IF Len(stages) >= 2 THEN stages[2] ELSE Stage("terminate", "", 0)

C28_NoSkipWhileAlive ==
  TerminateEnd.how \in {"skipped", "done"} => ~TerminateEnd.alive

\* StopInstance(name) has returned to its caller.
StopDone == rpc = "done" /\ rret.op = "stop"
\* The directory of the record that was stopped, if StartBrowser made it.
AutoDirOf(r) == IF r.UserDataDir \in supplied THEN {} ELSE {r.UserDataDir} \ {NoDir}

C29_Outcome ==
  StopDone =>
    IF LoadInstance(before, rarg).ok
    THEN /\ rret.err = ""
         /\ rarg \in DOMAIN registry <=> rarg \in rmFailed
         /\ \A d \in AutoDirOf(before[rarg]) : d \in dirs <=> d \in rmAllFailed
         /\ \A n \in DOMAIN before \ {rarg} :
              n \in DOMAIN registry /\ registry[n] = before[n]
    ELSE /\ rret.err # "" /\ rret.class = "user"
         /\ signals = <<>> /\ stages = <<>>
         /\ registry = before

\* StopInstance returning an error changes nothing.
C29_NotFoundStep ==
  (nOps' # nOps /\ rret'.op = "stop" /\ rret'.err # "") =>
    UNCHANGED <<registry, alive, dirs, serving, signals>>

\* C29 (amended): once the record is loaded StopInstance returns success
\* whatever happens in its stages, having removed the directory StartBrowser
\* made and the record, except where the removal itself failed; for a name
\* without a record it returns a user error, sends no signal and changes
\* nothing.
C29_Stop == []C29_Outcome /\ [][C29_NotFoundStep]_vars

\* C29 witness: the dial failed and the process outlived the terminate wait;
\* StopInstance still removed the directory and the record and returned nil.
C29_Witness ==
  /\ StopDone /\ rret.err = ""
  /\ GracefulEnd.how = "dial failed" /\ signals = <<"TERM", "KILL">>
  /\ before[rarg].UserDataDir = MkdirTemp(1, 0)
  /\ MkdirTemp(1, 0) \notin dirs
  /\ rarg \notin DOMAIN registry

\* C29 as stated: after a successful StopInstance the record is gone.
C29_Original ==
  (StopDone /\ rret.err = "") => rarg \notin DOMAIN registry

\* Nothing is waited for after KILL.
C30_KillIsFinal ==
  (rpc = "stop" /\ Len(signals) = 2) => spc = "cleanup"

\* C30: StopInstance always returns, also when the peer never replies and the
\* process never exits; after KILL it goes straight to the cleanup.
C30_Terminates == []C30_KillIsFinal /\ ((rpc = "stop") ~> (rpc = "done"))

\* C30 witness: the close command ran into the deadline and the process
\* outlived the terminate wait; StopInstance has returned.
C30_Witness ==
  /\ StopDone
  /\ ret[1].err = "context deadline exceeded"
  /\ GracefulEnd.how = "command failed" /\ TerminateEnd.how = "timeout"

\* C25: every directory a caller passed to StartBrowser still exists.
C25_CallerDirKept == supplied \subseteq dirs

\* C26: a record that can be loaded is not changed by any step but its
\* removal, so a name gets a new record only after the old one is gone.
C26_Step ==
  \A n \in Names :
    (/\ n \in DOMAIN registry /\ registry[n].valid
     /\ n \in DOMAIN registry') => registry'[n] = registry[n]

C26_NeverRewritten == [][C26_Step]_vars

\* C26 witness: StartBrowser was called with the name of a record an earlier
\* StartBrowser saved, and returned with the record as it was.
C26_Witness ==
  /\ rpc = "done" /\ rret.op = "start" /\ rret.class = "user"
  /\ rarg \in DOMAIN registry /\ registry[rarg].valid
  /\ registry[rarg].Port # 0
  /\ registry[rarg] = before[rarg]

\* StopAllInstances() has returned.
StopAllDone == rpc = "done" /\ rret.op = "stopall"
\* The names of the entries whose StopInstance fails: the files LoadInstance
\* cannot decode.
Unloadable(reg) == {n \in DOMAIN reg : ~LoadInstance(reg, n).ok}
\* The names a sequence lists.
Listed(q) == {q[i] : i \in 1..Len(q)}

C31_Outcome ==
  StopAllDone =>
    IF rret.err = "reading instances dir"
    THEN failed = <<>> /\ registry = before /\ signals = <<>>
    ELSE /\ todo = <<>>
         /\ \A n \in DOMAIN before :
              IF LoadInstance(before, n).ok
              THEN n \in DOMAIN registry <=> n \in rmFailed
              ELSE n \in DOMAIN registry /\ registry[n] = before[n]
         /\ Listed(failed) = Unloadable(before)
         /\ Len(failed) = Cardinality(Unloadable(before))
         /\ rret.err = "" <=> failed = <<>>
         /\ rret.err # "" => rret.class = "runtime"

\* C31 (amended): when the instances directory can be read, StopAllInstances
\* calls StopInstance for every entry, goes on after a failure, returns nil
\* iff no StopInstance failed and otherwise a runtime error with exactly the
\* names that failed; when the directory cannot be read it stops nothing and
\* returns a runtime error (nil if the directory does not exist).
C31_StopAll == C31_Outcome

\* C31 witness: the second of three entries could not be loaded; the first
\* and the third were stopped and their records removed, and the error lists
\* the second.
C31_Witness ==
  /\ StopAllDone
  /\ DOMAIN before = {1, 2, 3}
  /\ failed = <<2>>
  /\ rret.class = "runtime"
  /\ DOMAIN registry = {2}
  /\ PidOf(3) \notin alive

\* C31 as stated: StopAllInstances returns nil iff every StopInstance it
\* called returned nil.
C31_Original == StopAllDone => (rret.err = "" <=> failed = <<>>)

\* A message has been put into the channel of Send c, before and after a step.
Handed(c)     == Len(ch[c].buf) > 0 \/ GotResponse(c)
HandedNext(c) == Len(ch'[c].buf) > 0 \/ (pc'[c] = "done" /\ ret'[c].resp # <<>>)

C32_OneSlot ==
  /\ reader # "blocked" /\ Mu # "reader"
  /\ \A c \in Calls :
       /\ Len(ch[c].buf) <= SlotCap
       /\ Handed(c) => ~HasSlot(Pending, id[c])
  /\ ~Pending.isNil =>
       \A i, j \in DOMAIN Pending.slots :
         Pending.slots[i] = Pending.slots[j] => i = j

C32_Step ==
  \A c \in Calls :
    /\ (~Handed(c) /\ HandedNext(c)) =>
         /\ ReadsDecoded /\ frame'.obj.ID = id[c]
         /\ HasSlot(Pending, id[c]) /\ ~HasSlot(Pending', id[c])
    /\ Handed(c) =>
         /\ HandedNext(c)
         /\ Len(ch'[c].buf) <= Len(ch[c].buf)
         /\ GotResponse(c) => ret'[c] = ret[c]
    /\ (Handed(c) /\ ReadsDecoded /\ frame'.obj.ID = id[c]) =>
         /\ UNCHANGED <<Pending, ch, pc, ret>>
         /\ reader' = "running" /\ Mu' = "free" /\ panic' = "none"

\* C32: a slot is registered under the id of one Send only, a message is put
\* into a Send's channel only by a frame with its id while its slot is in the
\* table, the slot leaves the table in the same step, and no second message
\* follows: a further frame with that id changes nothing; the reader never
\* blocks on a slot while it holds the lock.
C32_SingleDelivery == []C32_OneSlot /\ [][C32_Step]_vars

\* C32 witness: a reply sits in the channel of a Send that has not taken it
\* yet, and a second frame with the same id was read and dropped.
C32_Witness ==
  \E c \in Calls :
    /\ Len(ch[c].buf) = 1 /\ ~Returned(c)
    /\ nread = 2 /\ frame.wf /\ frame.obj.ID = id[c]
    /\ reader = "running" /\ Mu = "free"

\* The step reads a frame that does not decode, or a frame with an id that
\* has no slot in the pending table.
ReadsDropped ==
  /\ nread' = nread + 1
  /\ \/ ~frame'.wf
     \/ frame'.wf /\ frame'.obj.ID # 0 /\ ~HasSlot(Pending, frame'.obj.ID)

C33_Step ==
  ReadsDropped =>
    /\ UNCHANGED <<Pending, Events, Closed, ch, pc, ret, arrived>>
    /\ reader' = "running" /\ Mu' = "free" /\ panic' = "none"

\* C33: reading a frame that does not decode, or a response whose id has no
\* slot, changes neither the pending table, nor the event queue, nor the
\* closed flag, nor any Send's channel, position or result, and leaves the
\* reader able to read the next frame.
C33_Dropped == [][C33_Step]_vars

\* C33 witness: with a Send parked on its slot and an event queue, two frames
\* were read, the last one undecodable; the Send is still parked and the
\* reader runs.
C33_Witness ==
  /\ nread = 2 /\ ~frame.wf
  /\ reader = "running" /\ ~Closed /\ ~Events.isNil
  /\ \E c \in Calls : pc[c] = "parked" /\ HasSlot(Pending, id[c])

\* Torn down: the closed flag is set, the table is nil, the reader is gone.
C34_TornDown ==
  /\ Closed <=> Pending.isNil
  /\ Closed <=> reader = "exited"
  /\ Pending.isNil => Pending.slots = EmptyMap
  /\ \A c \in Calls : "calledAfterClose" \in hist[c] => ret[c].resp = <<>>

C34_Step ==
  Closed =>
    /\ Closed' /\ Pending' = Pending /\ reader' = "exited"
    /\ UNCHANGED <<nread, frame, arrived>>
    /\ Events'.closed = Events.closed /\ Len(Events'.q) <= Len(Events.q)
    /\ \A c \in Calls :
         /\ HandedNext(c) => Handed(c)
         /\ Len(ch'[c].buf) <= Len(ch[c].buf)
         /\ (pc'[c] = "done" /\ ret'[c].resp # <<>> /\ ~GotResponse(c)) =>
              (Len(ch[c].buf) > 0 /\ ret'[c].resp = <<Head(ch[c].buf)>>)

\* C34 (amended): once the closed flag is set it stays set, the pending table
\* is nil and stays nil, the reader has stopped and reads nothing more, no
\* message is put into any Send's channel any more, and a Send called
\* afterwards returns no response; a Send returns a response afterwards only
\* if that reply was put into its channel before the teardown.
C34_NeverReused == []C34_TornDown /\ [][C34_Step]_vars

\* C34 witness: after the teardown one Send, called after it, has returned
\* without a response, and another one has returned the reply that was in its
\* channel.
C34_Witness ==
  /\ Closed /\ Pending.isNil /\ reader = "exited"
  /\ \E c \in Calls :
       "calledAfterClose" \in hist[c] /\ Returned(c) /\ ret[c].resp = <<>>
  /\ \E b \in Calls : "calledAfterClose" \notin hist[b] /\ GotResponse(b)

C34_NoResponseStep ==
  Closed => \A c \in Calls :
    (pc'[c] = "done" /\ ret'[c].resp # <<>>) => GotResponse(c)

\* C34 as stated: once the closed flag is set no Send returns a response.
C34_Original == [][C34_NoResponseStep]_vars

\* A step that is not the reader's: no frame is read and the reader does not
\* end.
NotReaderStep == nread' = nread /\ reader' = reader
\* The ids whose slot the step adds to the table, and removes from it.
SlotsAdded   == DOMAIN Pending'.slots \ DOMAIN Pending.slots
SlotsRemoved == DOMAIN Pending.slots \ DOMAIN Pending'.slots

C35_Step ==
  /\ (Closed' # Closed \/ Pending'.isNil # Pending.isNil
        \/ Events'.closed # Events.closed
        \/ \E c \in Calls : ch'[c].closed # ch[c].closed)
       => (reader = "running" /\ reader' = "exited")
  /\ nClose' # nClose =>
       /\ UNCHANGED <<Pending, Closed, Events, Mu, reader>>
       /\ UNCHANGED callVars
  /\ NotReaderStep =>
       /\ \A i \in SlotsAdded :
            \E c \in Calls :
              pc[c] = "lock" /\ pc'[c] = "write" /\ id[c] = i /\ Pending'.slots[i] = c
       /\ \A i \in SlotsRemoved :
            \E c \in Calls :
              pc[c] \in {"unreg", "ctxdone"} /\ pc'[c] = "done" /\ id[c] = i
       /\ \A i \in DOMAIN Pending.slots \cap DOMAIN Pending'.slots :
            Pending'.slots[i] = Pending.slots[i]
       /\ Cardinality(SlotsAdded \cup SlotsRemoved) <= 1
       /\ Len(Events'.q) <= Len(Events.q)

\* C35: the closed flag, the nil-ness of the pending table and the closing of
\* the channels change only in the step in which the reader ends; Close()
\* changes none of the table, the flag, the event queue and the Sends; and a
\* step of a Send adds to the table only the slot of its own id and removes
\* only that one, leaving every other slot as it was.
C35_OnlyReader == [][C35_Step]_vars

\* C35 witness: Close() has run and the reader has not yet torn down; one Send
\* has removed its own slot and returned while the slot of the other Send is
\* still in the table.
C35_Witness ==
  /\ nClose >= 1 /\ ~Closed /\ ~Pending.isNil /\ reader = "running"
  /\ \E c, b \in Calls :
       /\ c # b
       /\ HasSlot(Pending, id[c]) /\ Pending.slots[id[c]] = c
       /\ Returned(b) /\ "registered" \in hist[b] /\ ret[b].resp = <<>>

\* C37: the record a successful StartBrowser returns names the process that
\* answers on the recorded port, and the recorded endpoint is that process's.
C37_OneProcess ==
  (StartDone /\ rret.err = "" /\ rret.insts # <<>>) =>
    LET i == rret.insts[1] IN
      i.PID \in alive =>
        /\ Answers(serving, i.Port) /\ serving[i.Port] = i.PID
        /\ i.WsURL # "" => i.WsURL = WsOf(i.Port, i.PID)

\* C39: after an operation every directory StartBrowser made for a record
\* that was in the registry is still named by that record, or is gone (or its
\* removal was tried and failed).
C39_NoOrphanDir ==
  rpc = "done" =>
    \A n \in DOMAIN before :
      before[n].valid =>
        \A d \in AutoDirOf(before[n]) :
          \/ d \notin dirs
          \/ d \in rmAllFailed
          \/ n \in DOMAIN registry /\ registry[n] = before[n]

\* C40: StartBrowser returns "already exists" only for a name whose recorded
\* process is alive.
C40_OnlyIfAlive ==
  (StartDone /\ rret.err = "instance already exists") =>
    before[rarg].PID \in alive

\* The processes in the process group of pid.
GroupOf(pid) == {p \in DOMAIN pgrp : pgrp[p] = pgrp[pid]}

\* C36: every launched browser is in a process group of its own, not the
\* caller's, and StopInstance's SIGTERM reaches every process of the group of
\* the recorded process.
C36_ProcessGroup ==
  /\ \A p \in DOMAIN pgrp : pgrp[p] # SelfPgid /\ pgrp[p] \in DOMAIN pgrp
  /\ (termTo # {} /\ inst # <<>> /\ inst[1].PID \in DOMAIN pgrp) =>
       termTo = GroupOf(inst[1].PID)

\* Both calls of StartBrowser, made with the same name, have returned.
BothDone ==
  /\ rpc = "done" /\ rret.op = "start"
  /\ other.rpc = "done" /\ other.rret.op = "start"
  /\ rarg = other.rarg /\ rarg # 0

\* C38: of two calls of StartBrowser with the same name that ran at the same
\* time at most one returns success, and once both have returned every
\* launched process that is alive is named by a record.
C38_OneWinner ==
  BothDone =>
    /\ ~(rret.err = "" /\ other.rret.err = "")
    /\ \A p \in alive :
         \E n \in DOMAIN registry : registry[n].valid /\ registry[n].PID = p

====
